---- MODULE Spec2Model ----
(***************************************************************************)
(* flask_rebar.swagger_generation.marshmallow_to_swagger: the converter   *)
(* registry and the converters, as a state machine.  A state holds the    *)
(* type maps of the registries and the outcome of the convert call the    *)
(* caller made last.  Further specifications of the same module follow    *)
(* the registrations alone, a call repeated, and calls that run           *)
(* concurrently.  The modules utils.deprecation and                       *)
(* framing.marshmallow_to_jsonschema have a state and a specification of  *)
(* their own.                                                              *)
(*                                                                         *)
(* Python values are tagged tuples, <<tag, payload>>, so that a string, a  *)
(* list, a boolean, a mapping and the UNSET marker are all distinct       *)
(* values: "string" is PyStr("string") and ["string", "null"] is          *)
(* PyList(<<PyStr("string"), PyStr("null")>>).  A dict is a function from *)
(* its keys to tagged values.                                             *)
(***************************************************************************)
EXTENDS Integers, Sequences, FiniteSets, TLC

VARIABLES
    \* the _type_map of each registry
    type_map,
    \* registrations made since module initialisation
    nreg,
    \* "idle", or "called" when the caller holds the outcome of a convert call
    pc,
    \* the convert call made last and its outcome
    last,
    \* for each registry, the converters registered with it, in order
    log,
    \* the call made before a repeated call, and its outcome
    prev,
    \* the convert calls that run concurrently, each at a step of its own
    threads,
    \* the dicts the concurrent calls have created: heap[t][k] is the k-th
    \* dict call t created, and <<t, k>> is its address
    heap,
    \* utils.deprecation: the class attribute DeprecationConfig.__instance
    __instance,
    \* utils.deprecation: the assignments made to DeprecationConfig.__instance
    stored,
    \* utils.deprecation: the operation whose outcome the caller holds
    dcall,
    \* framing.marshmallow_to_jsonschema: the call made last and its outcome
    fcall

vars == <<type_map, nreg, pc, last, log, prev, threads, heap, __instance, stored,
          dcall, fcall>>

\* the state of the modules other than marshmallow_to_swagger
others == <<__instance, stored, dcall, fcall>>

\* the state of marshmallow_to_swagger
swagger == <<type_map, nreg, pc, last, log, prev, threads, heap>>

----------------------------------------------------------------------------
(* Bounds of the exploration *)

\* registrations made after module initialisation
MaxRegs == 2
\* validators in one field's validate list
MaxValidators == 2
\* fields declared by one schema
MaxFields == 2

\* convert calls that run concurrently
MaxThreads == 2

\* aliases given to one deprecated_parameters decorator
MaxAliases == 2

\* entries of the "properties" of one flattened mapping
MaxProperties == 2

----------------------------------------------------------------------------
(* Values *)

UNSET == <<"UNSET">>
None == <<"None">>
missing == <<"missing">>
PyStr(s) == <<"str", s>>
PyBool(b) == <<"bool", b>>
PyInt(n) == <<"int", n>>
PyList(xs) == <<"list", xs>>
PyDict(f) == <<"map", f>>

EmptyMap == [k \in {} |-> UNSET]

\* d[k] = v
SetItem(d, k, v) == [x \in DOMAIN d \cup {k} |-> IF x = k THEN v ELSE d[x]]

\* faulty variant: a key d holds already keeps the value it has
update_keep_first(d, e) ==
    [x \in DOMAIN d \cup DOMAIN e |-> IF x \in DOMAIN d THEN d[x] ELSE e[x]]

\* d.update(e)
update(d, e) == [x \in DOMAIN d \cup DOMAIN e |-> IF x \in DOMAIN e THEN e[x] ELSE d[x]]

\* The order of Python's str comparison on the names the model uses.
NameOrder == <<"a", "b", "c", "z">>

Rank(s) == CHOOSE i \in 1..Len(NameOrder) : NameOrder[i] = s

RECURSIVE InsertSorted(_, _)
InsertSorted(xs, x) ==
    IF xs = <<>> THEN <<x>>
    ELSE IF Rank(x) < Rank(Head(xs)) THEN <<x>> \o xs
    ELSE <<Head(xs)>> \o InsertSorted(Tail(xs), x)

\* sorted(xs) of a list of str
RECURSIVE sorted(_)
sorted(xs) ==
    IF xs = <<>> THEN <<>>
    ELSE InsertSorted(sorted(SubSeq(xs, 1, Len(xs) - 1)), xs[Len(xs)])

----------------------------------------------------------------------------
(* The classes of the objects that are converted, each with its           *)
(* method-resolution order, most-derived first.                           *)

MRO ==
    [Schema |-> <<"Schema", "object">>,
     UserSchema |-> <<"UserSchema", "Schema", "object">>,
     Field |-> <<"Field", "object">>,
     Raw |-> <<"Raw", "Field", "object">>,
     String |-> <<"String", "Field", "object">>,
     UUID |-> <<"UUID", "String", "Field", "object">>,
     Email |-> <<"Email", "String", "Field", "object">>,
     Number |-> <<"Number", "Field", "object">>,
     Integer |-> <<"Integer", "Number", "Field", "object">>,
     Float |-> <<"Float", "Number", "Field", "object">>,
     Boolean |-> <<"Boolean", "Field", "object">>,
     DateTime |-> <<"DateTime", "Field", "object">>,
     Date |-> <<"Date", "DateTime", "Field", "object">>,
     List |-> <<"List", "Field", "object">>,
     CommaSeparatedList |-> <<"CommaSeparatedList", "List", "Field", "object">>,
     QueryParamList |-> <<"QueryParamList", "List", "Field", "object">>,
     Nested |-> <<"Nested", "Field", "object">>,
     Dict |-> <<"Dict", "Mapping", "Field", "object">>,
     Constant |-> <<"Constant", "Field", "object">>,
     Method |-> <<"Method", "Field", "object">>,
     Function |-> <<"Function", "Field", "object">>,
     Enum |-> <<"Enum", "Field", "object">>,
     Validator |-> <<"Validator", "object">>,
     Range |-> <<"Range", "Validator", "object">>,
     Length |-> <<"Length", "Validator", "object">>,
     OneOf |-> <<"OneOf", "Validator", "object">>,
     ContainsOnly |-> <<"ContainsOnly", "OneOf", "Validator", "object">>,
     Regexp |-> <<"Regexp", "Validator", "object">>,
     function |-> <<"function", "object">>]

Classes == DOMAIN MRO

SchemaClasses == {c \in Classes : \E i \in 1..Len(MRO[c]) : MRO[c][i] = "Schema"}
FieldClasses == {c \in Classes : \E i \in 1..Len(MRO[c]) : MRO[c][i] = "Field"}
ValidatorClasses == Classes \ (SchemaClasses \cup FieldClasses)

\* The enum field type the environment provides (m.fields.Enum).
EnumField == "Enum"
LoadDumpOptions == None

----------------------------------------------------------------------------
(* Converters.  A converter instance is <<its class, its instance number>>. *)

MARSHMALLOW_TYPE ==
    [MarshmallowConverter |-> "None",
     SchemaConverter |-> "Schema",
     FieldConverter |-> "Field",
     ValidatorConverter |-> "Validator",
     NestedConverter |-> "Nested",
     ListConverter |-> "List",
     DictConverter |-> "Dict",
     IntegerConverter |-> "Integer",
     StringConverter |-> "String",
     NumberConverter |-> "Number",
     BooleanConverter |-> "Boolean",
     DateTimeConverter |-> "DateTime",
     UUIDConverter |-> "UUID",
     DateConverter |-> "Date",
     MethodConverter |-> "Method",
     FunctionConverter |-> "Function",
     ConstantConverter |-> "Constant",
     CsvArrayConverter |-> "CommaSeparatedList",
     MultiArrayConverter |-> "QueryParamList",
     RangeConverter |-> "Range",
     OneOfConverter |-> "OneOf",
     LengthConverter |-> "Length",
     EnumConverter |-> EnumField]

ConverterClasses == DOMAIN MARSHMALLOW_TYPE

\* issubclass(klass, FieldConverter)
FieldConverterClasses ==
    {"FieldConverter", "NestedConverter", "ListConverter", "DictConverter",
     "IntegerConverter", "StringConverter", "NumberConverter", "BooleanConverter",
     "DateTimeConverter", "UUIDConverter", "DateConverter", "MethodConverter",
     "FunctionConverter", "ConstantConverter", "CsvArrayConverter",
     "MultiArrayConverter", "EnumConverter"}

\* klass(): instance number n of converter class klass
New(klass, n) == <<klass, n>>

----------------------------------------------------------------------------
(* ConverterRegistry: the type map, registration and lookup *)

\* ConverterRegistry.__init__
ConverterRegistry == EmptyMap

\* faulty variant: a type that has a converter keeps it
register_type_keep_first(tm, converter) ==
    IF MARSHMALLOW_TYPE[converter[1]] \in DOMAIN tm THEN tm
    ELSE SetItem(tm, MARSHMALLOW_TYPE[converter[1]], converter)

register_type(tm, converter) == SetItem(tm, MARSHMALLOW_TYPE[converter[1]], converter)

RECURSIVE register_types(_, _)
register_types(tm, converters) ==
    IF converters = <<>> THEN tm
    ELSE register_types(register_type(tm, Head(converters)), Tail(converters))

\* for cls in method_resolution_order: if cls in self._type_map: return ...
RECURSIVE first_registered(_, _)
first_registered(tm, mro) ==
    IF mro = <<>> THEN None
    ELSE IF Head(mro) \in DOMAIN tm THEN tm[Head(mro)]
    ELSE first_registered(tm, Tail(mro))

Reverse(xs) == [i \in 1..Len(xs) |-> xs[Len(xs) + 1 - i]]

\* faulty variant: the walk runs from the least-derived class
_get_converter_for_type_least_derived(tm, obj) ==
    LET c == first_registered(tm, Reverse(MRO[obj.cls]))
    IN  [exc |-> IF c = None THEN "UnregisteredType" ELSE "none", conv |-> c]

\* The converter found, or the UnregisteredType raised.
_get_converter_for_type(tm, obj) ==
    LET c == first_registered(tm, MRO[obj.cls])
    IN  [exc |-> IF c = None THEN "UnregisteredType" ELSE "none", conv |-> c]

\* faulty variant: the Constant converter is left out of the common list
_common_converters_without_constant(n) ==
    <<New("BooleanConverter", n), New("DateConverter", n),
      New("DateTimeConverter", n), New("FunctionConverter", n),
      New("IntegerConverter", n), New("LengthConverter", n),
      New("ListConverter", n), New("MethodConverter", n),
      New("NumberConverter", n), New("OneOfConverter", n),
      New("RangeConverter", n), New("SchemaConverter", n),
      New("StringConverter", n), New("UUIDConverter", n),
      New("EnumConverter", n)>>

\* The converters of _common_converters(), instantiated for registry number n.
_common_converters(n) ==
    LET converters ==
            <<New("BooleanConverter", n), New("DateConverter", n),
              New("DateTimeConverter", n), New("FunctionConverter", n),
              New("IntegerConverter", n), New("LengthConverter", n),
              New("ListConverter", n), New("MethodConverter", n),
              New("NumberConverter", n), New("OneOfConverter", n),
              New("RangeConverter", n), New("SchemaConverter", n),
              New("StringConverter", n), New("UUIDConverter", n),
              New("ConstantConverter", n)>>
    IN  IF MARSHMALLOW_TYPE["EnumConverter"] # "None"
        THEN Append(converters, New("EnumConverter", n))
        ELSE converters

query_string_converter_registry ==
    register_types(ConverterRegistry,
        _common_converters(1) \o <<New("CsvArrayConverter", 1), New("MultiArrayConverter", 1)>>)

headers_converter_registry ==
    register_types(ConverterRegistry,
        _common_converters(2) \o <<New("CsvArrayConverter", 2), New("MultiArrayConverter", 2)>>)

request_body_converter_registry ==
    register_types(ConverterRegistry,
        _common_converters(3) \o <<New("DictConverter", 3), New("NestedConverter", 3)>>)

response_converter_registry ==
    register_types(ConverterRegistry,
        _common_converters(4) \o <<New("DictConverter", 4), New("NestedConverter", 4)>>)

CatalogRegistries == {"query_string", "headers", "request_body", "response"}
\* "custom" is a registry the caller constructs: ConverterRegistry()
Registries == CatalogRegistries \cup {"custom"}

----------------------------------------------------------------------------
(* Results of the model's operators.  A setter or a convert call ends with *)
(* a value or with an exception; obj is the source object as the call left *)
(* it, and calls lists the _convert calls made, in order.                  *)

Return(v, obj) == [val |-> v, exc |-> "none", obj |-> obj, calls |-> <<>>]
Raise(e, obj) == [val |-> UNSET, exc |-> e, obj |-> obj, calls |-> <<>>]

\* _Context(convert=self._convert, memo, schema, openapi_version): the
\* bound method self._convert is the registry's type map.
_Context(tm, memo, schema, openapi_version) ==
    [convert |-> tm, memo |-> memo, schema |-> schema,
     openapi_version |-> openapi_version]

----------------------------------------------------------------------------
(* Helpers of the module *)

\* bool(x) of an attribute that is None, a callable or a list
truthy(x) ==
    CASE x[1] = "None" -> FALSE
      [] x[1] = "list" -> x[2] # <<>>
      [] x[1] = "collection" -> x[2] # {}
      [] x[1] = "bool" -> x[2]
      [] x[1] = "str" -> x[2] # ""
      [] OTHER -> TRUE

\* callable(x): a validator instance or a function
callable(x) == x[1] = "callable"

_normalize_validate(validate) ==
    IF callable(validate) THEN PyList(<<validate[2]>>) ELSE validate

get_swagger_title(obj) ==
    IF obj.swagger_title # None THEN obj.swagger_title ELSE PyStr(obj.cls)

\* compat.get_data_key(field): the field's data_key, or its name
get_data_key(name, field) ==
    IF field.data_key # None THEN field.data_key[2] ELSE name

\* The (prop, field) pairs of schema.fields sorted by prop; a field is named
\* by its position in schema.fields.  Wire-names are distinct.
get_schema_fields(schema) ==
    LET fields == [i \in 1..Len(schema.fields) |->
                      <<get_data_key(schema.fields[i].name, schema.fields[i].field), i>>]
        props == sorted([i \in 1..Len(fields) |-> fields[i][1]])
    IN  [k \in 1..Len(props) |->
            CHOOSE f \in {fields[i] : i \in 1..Len(fields)} : f[1] = props[k]]

\* m.utils.is_collection(x)
is_collection(x) == x[1] = "collection"

----------------------------------------------------------------------------
(* The attribute setters.  _convert(obj, context, pos) is context.convert: *)
(* pos names the place the call is made from and is recorded with it.     *)

RECURSIVE _convert(_, _, _)

(* SchemaConverter *)

SchemaConverter_get_type(obj, context) ==
    IF obj.many THEN Return(PyStr("array"), obj) ELSE Return(PyStr("object"), obj)

\* faulty variant: singular_obj = obj: the flag is cleared on the schema itself
SchemaConverter_get_items_no_copy(obj, context) ==
    IF ~obj.many THEN Return(UNSET, obj)
    ELSE _convert([obj EXCEPT !.many = FALSE], context, "items")

\* singular_obj is a deep copy: what is written to it is not written to obj
SchemaConverter_get_items(obj, context) ==
    IF ~obj.many THEN Return(UNSET, obj)
    ELSE LET singular_obj == [obj EXCEPT !.many = FALSE]
             r == _convert(singular_obj, context, "items")
         IN  [r EXCEPT !.obj = obj]

RECURSIVE get_properties_loop(_, _, _, _, _)
get_properties_loop(fields, obj, context, properties, calls) ==
    IF fields = <<>>
    THEN [val |-> PyDict(properties), exc |-> "none", obj |-> obj, calls |-> calls]
    ELSE LET prop == Head(fields)[1]
             i == Head(fields)[2]
             r == _convert(obj.fields[i].field, context, "property")
             obj2 == [obj EXCEPT !.fields[i].field = r.obj]
         IN  IF r.exc # "none"
             THEN [val |-> UNSET, exc |-> r.exc, obj |-> obj2, calls |-> calls \o r.calls]
             ELSE get_properties_loop(Tail(fields), obj2, context,
                                      SetItem(properties, prop, r.val), calls \o r.calls)

SchemaConverter_get_properties(obj, context) ==
    IF obj.many THEN Return(UNSET, obj)
    ELSE get_properties_loop(get_schema_fields(obj), obj, context, EmptyMap, <<>>)

RECURSIVE get_required_loop(_, _, _)
\* faulty variant: the exclusion collection is matched against the name the
\* field is declared under
get_required_loop_by_name(items, obj, required) ==
    IF items = <<>> THEN required
    ELSE LET name == Head(items).name
             field == Head(items).field
             prop == get_data_key(name, field)
         IN  IF field.required
             THEN IF is_collection(obj.partial) /\ truthy(obj.partial)
                     /\ name \in obj.partial[2]
                  THEN get_required_loop(Tail(items), obj, required)
                  ELSE get_required_loop(Tail(items), obj, Append(required, prop))
             ELSE get_required_loop(Tail(items), obj, required)

get_required_loop(items, obj, required) ==
    IF items = <<>> THEN required
    ELSE LET name == Head(items).name
             field == Head(items).field
             prop == get_data_key(name, field)
         IN  IF field.required
             THEN IF is_collection(obj.partial) /\ truthy(obj.partial)
                     /\ prop \in obj.partial[2]
                  THEN get_required_loop(Tail(items), obj, required)
                  ELSE get_required_loop(Tail(items), obj, Append(required, prop))
             ELSE get_required_loop(Tail(items), obj, required)

PyStrs(xs) == PyList([i \in 1..Len(xs) |-> PyStr(xs[i])])

\* faulty variant: the required list is not sorted
SchemaConverter_get_required_unsorted(obj, context) ==
    IF obj.many \/ obj.partial = PyBool(TRUE) THEN Return(UNSET, obj)
    ELSE LET required == get_required_loop(obj.fields, obj, <<>>)
         IN  IF required # <<>> THEN Return(PyStrs(required), obj) ELSE Return(UNSET, obj)

\* faulty variant: an empty list is returned, not UNSET
SchemaConverter_get_required_empty_list(obj, context) ==
    IF obj.many \/ obj.partial = PyBool(TRUE) THEN Return(UNSET, obj)
    ELSE LET required0 == get_required_loop(obj.fields, obj, <<>>)
             required == IF required0 # <<>> /\ ~obj.ordered
                         THEN sorted(required0) ELSE required0
         IN  Return(PyStrs(required), obj)

SchemaConverter_get_required(obj, context) ==
    IF obj.many \/ obj.partial = PyBool(TRUE) THEN Return(UNSET, obj)
    ELSE LET required0 == get_required_loop(obj.fields, obj, <<>>)
             required == IF required0 # <<>> /\ ~obj.ordered
                         THEN sorted(required0) ELSE required0
         IN  IF required # <<>> THEN Return(PyStrs(required), obj) ELSE Return(UNSET, obj)

\* faulty variant: the docstring is set for a many schema too
SchemaConverter_get_description_any(obj, context) ==
    IF truthy(obj.doc) THEN Return(obj.doc, obj) ELSE Return(UNSET, obj)

SchemaConverter_get_description(obj, context) ==
    IF obj.many THEN Return(UNSET, obj)
    ELSE IF truthy(obj.doc) THEN Return(obj.doc, obj)
    ELSE Return(UNSET, obj)

SchemaConverter_get_title(obj, context) ==
    IF ~obj.many THEN Return(get_swagger_title(obj), obj) ELSE Return(UNSET, obj)

\* faulty variant: a policy that is none of the three leaves the key unset
SchemaConverter_get_additional_properties_lenient(obj, context) ==
    IF obj.unknown \in {"raise", "exclude"} THEN Return(PyBool(FALSE), obj)
    ELSE IF obj.unknown = "include" THEN Return(PyBool(TRUE), obj)
    ELSE Return(UNSET, obj)

SchemaConverter_get_additional_properties(obj, context) ==
    IF obj.unknown \in {"raise", "exclude"} THEN Return(PyBool(FALSE), obj)
    ELSE IF obj.unknown = "include" THEN Return(PyBool(TRUE), obj)
    ELSE Raise("ValueError", obj)

(* FieldConverter and its subclasses *)

\* faulty variant: the union with "null" is made for every version
null_type_determination_any_version(obj, context, sw_type) ==
    IF obj.allow_none THEN PyList(<<sw_type, PyStr("null")>>) ELSE sw_type

null_type_determination(obj, context, sw_type) ==
    IF context.openapi_version = 3 /\ obj.allow_none
    THEN PyList(<<sw_type, PyStr("null")>>)
    ELSE sw_type

FieldConverter_get_default(obj, context) ==
    IF obj.load_default # missing /\ ~callable(obj.load_default)
    THEN Return(obj.load_default, obj)
    ELSE Return(UNSET, obj)

FieldConverter_get_nullable(obj, context) ==
    IF context.openapi_version = 2 /\ obj.allow_none # FALSE
    THEN Return(PyBool(TRUE), obj)
    ELSE Return(UNSET, obj)

FieldConverter_get_description(obj, context) ==
    IF "description" \in DOMAIN obj.metadata
    THEN Return(obj.metadata["description"], obj)
    ELSE Return(UNSET, obj)

ListConverter_get_type(obj, context) ==
    Return(null_type_determination(obj, context, PyStr("array")), obj)

ListConverter_get_items(obj, context) ==
    LET r == _convert(obj.inner, context, "inner")
    IN  [r EXCEPT !.obj = [obj EXCEPT !.inner = r.obj]]

DictConverter_get_type(obj, context) ==
    Return(null_type_determination(obj, context, PyStr("object")), obj)

IntegerConverter_get_type(obj, context) ==
    Return(null_type_determination(obj, context, PyStr("integer")), obj)

StringConverter_get_type(obj, context) ==
    Return(null_type_determination(obj, context, PyStr("string")), obj)

NumberConverter_get_type(obj, context) ==
    Return(null_type_determination(obj, context, PyStr("number")), obj)

BooleanConverter_get_type(obj, context) ==
    Return(null_type_determination(obj, context, PyStr("boolean")), obj)

DateTimeConverter_get_type(obj, context) ==
    Return(null_type_determination(obj, context, PyStr("string")), obj)

DateTimeConverter_get_format(obj, context) == Return(PyStr("date-time"), obj)

UUIDConverter_get_type(obj, context) ==
    Return(null_type_determination(obj, context, PyStr("string")), obj)

UUIDConverter_get_format(obj, context) == Return(PyStr("uuid"), obj)

DateConverter_get_type(obj, context) ==
    Return(null_type_determination(obj, context, PyStr("string")), obj)

DateConverter_get_format(obj, context) == Return(PyStr("date"), obj)

\* faulty variant: a Method field without swagger_type gets no type
MethodConverter_get_type_optional(obj, context) ==
    IF "swagger_type" \in DOMAIN obj.metadata
    THEN Return(null_type_determination(obj, context, obj.metadata["swagger_type"]), obj)
    ELSE Return(UNSET, obj)

MethodConverter_get_type(obj, context) ==
    IF "swagger_type" \in DOMAIN obj.metadata
    THEN Return(null_type_determination(obj, context, obj.metadata["swagger_type"]), obj)
    ELSE Raise("ValueError", obj)

FunctionConverter_get_type(obj, context) ==
    IF "swagger_type" \in DOMAIN obj.metadata
    THEN Return(null_type_determination(obj, context, obj.metadata["swagger_type"]), obj)
    ELSE Raise("ValueError", obj)

ConstantConverter_get_enum(obj, context) == Return(PyList(<<obj.constant>>), obj)

CsvArrayConverter_get_collection_format(obj, context) ==
    IF context.openapi_version = 2 THEN Return(PyStr("csv"), obj) ELSE Return(UNSET, obj)

CsvArrayConverter_get_style(obj, context) ==
    IF context.openapi_version = 3 THEN Return(PyStr("form"), obj) ELSE Return(UNSET, obj)

CsvArrayConverter_get_explode(obj, context) ==
    IF context.openapi_version = 3 THEN Return(PyBool(FALSE), obj) ELSE Return(UNSET, obj)

MultiArrayConverter_get_collection_format(obj, context) ==
    IF context.openapi_version = 2 THEN Return(PyStr("multi"), obj) ELSE Return(UNSET, obj)

MultiArrayConverter_get_explode(obj, context) ==
    IF context.openapi_version = 3 THEN Return(PyBool(TRUE), obj) ELSE Return(UNSET, obj)

\* obj.by_value or (LoadDumpOptions is not None and ...)
enum_by_value(obj) ==
    obj.by_value \/ (LoadDumpOptions # None /\ obj.load_by = obj.dump_by
                                           /\ obj.dump_by = "value")

EnumConverter_get_type(obj, context) ==
    IF enum_by_value(obj)
    THEN LET value_type == obj.enum[1].value[1]
         IN  IF value_type = "int"
             THEN Return(null_type_determination(obj, context, PyStr("integer")), obj)
             ELSE IF value_type = "float"
             THEN Return(null_type_determination(obj, context, PyStr("number")), obj)
             ELSE Return(null_type_determination(obj, context, PyStr("string")), obj)
    ELSE Return(null_type_determination(obj, context, PyStr("string")), obj)

EnumConverter_get_enum(obj, context) ==
    IF enum_by_value(obj)
    THEN Return(PyList([i \in 1..Len(obj.enum) |-> obj.enum[i].value]), obj)
    ELSE Return(PyList([i \in 1..Len(obj.enum) |-> PyStr(obj.enum[i].name)]), obj)

(* The validator converters *)

RangeConverter_get_minimum(obj, context) ==
    IF obj.min # None THEN Return(obj.min, obj) ELSE Return(UNSET, obj)

RangeConverter_get_maximum(obj, context) ==
    IF obj.max # None THEN Return(obj.max, obj) ELSE Return(UNSET, obj)

OneOfConverter_get_enum(obj, context) == Return(PyList(obj.choices), obj)

\* context.memo[sw.type_] == sw_type: None for the KeyError of a memo with no "type"
memo_type_is(context, sw_type) ==
    IF "type" \notin DOMAIN context.memo THEN None
    ELSE PyBool(context.memo["type"] = PyStr(sw_type))

\* if context.memo["type"] == sw_type: if bound is not None: return bound
LengthConverter_get(obj, context, sw_type, bound) ==
    LET t == memo_type_is(context, sw_type)
    IN  IF t = None THEN Raise("KeyError", obj)
        ELSE IF t[2] /\ bound # None THEN Return(bound, obj)
        ELSE Return(UNSET, obj)

LengthConverter_get_minimum_items(obj, context) ==
    LengthConverter_get(obj, context, "array", obj.min)

LengthConverter_get_maximum_items(obj, context) ==
    LengthConverter_get(obj, context, "array", obj.max)

LengthConverter_get_minimum_length(obj, context) ==
    LengthConverter_get(obj, context, "string", obj.min)

LengthConverter_get_maximum_length(obj, context) ==
    LengthConverter_get(obj, context, "string", obj.max)

----------------------------------------------------------------------------
(* MarshmallowConverter.convert and its overrides *)

\* The names of all the marked methods, in the order of inspect.getmembers
\* (sorted by name).
SetterNames ==
    <<"get_additional_properties", "get_collection_format", "get_default",
      "get_description", "get_enum", "get_explode", "get_format", "get_items",
      "get_maximum", "get_maximum_items", "get_maximum_length", "get_minimum",
      "get_minimum_items", "get_minimum_length", "get_nullable",
      "get_properties", "get_required", "get_style", "get_title", "get_type">>

\* getattr(method, _method_marker): the attribute a marked method sets
sets_swagger_attr ==
    [get_additional_properties |-> "additionalProperties",
     get_collection_format |-> "collectionFormat",
     get_default |-> "default",
     get_description |-> "description",
     get_enum |-> "enum",
     get_explode |-> "explode",
     get_format |-> "format",
     get_items |-> "items",
     get_maximum |-> "maximum",
     get_maximum_items |-> "maxItems",
     get_maximum_length |-> "maxLength",
     get_minimum |-> "minimum",
     get_minimum_items |-> "minItems",
     get_minimum_length |-> "minLength",
     get_nullable |-> "nullable",
     get_properties |-> "properties",
     get_required |-> "required",
     get_style |-> "style",
     get_title |-> "title",
     get_type |-> "type"]

FieldSetters == {"get_default", "get_description", "get_nullable"}

\* The marked methods of an instance of each converter class, inherited ones
\* included.
marked_methods(klass) ==
    CASE klass = "MarshmallowConverter" -> {}
      [] klass = "ValidatorConverter" -> {}
      [] klass = "SchemaConverter" ->
            {"get_additional_properties", "get_description", "get_items",
             "get_properties", "get_required", "get_title", "get_type"}
      [] klass \in {"FieldConverter", "NestedConverter"} -> FieldSetters
      [] klass \in {"DictConverter", "IntegerConverter", "StringConverter",
                    "NumberConverter", "BooleanConverter", "MethodConverter",
                    "FunctionConverter"} -> FieldSetters \cup {"get_type"}
      [] klass \in {"DateTimeConverter", "UUIDConverter", "DateConverter"} ->
            FieldSetters \cup {"get_type", "get_format"}
      [] klass = "ListConverter" -> FieldSetters \cup {"get_type", "get_items"}
      [] klass = "CsvArrayConverter" ->
            FieldSetters \cup {"get_type", "get_items", "get_collection_format",
                               "get_style", "get_explode"}
      [] klass = "MultiArrayConverter" ->
            FieldSetters \cup {"get_type", "get_items", "get_collection_format",
                               "get_explode"}
      [] klass = "ConstantConverter" -> FieldSetters \cup {"get_enum"}
      [] klass = "EnumConverter" -> FieldSetters \cup {"get_type", "get_enum"}
      [] klass = "RangeConverter" -> {"get_minimum", "get_maximum"}
      [] klass = "OneOfConverter" -> {"get_enum"}
      [] klass = "LengthConverter" ->
            {"get_minimum_items", "get_maximum_items", "get_minimum_length",
             "get_maximum_length"}

\* inspect.getmembers(self, predicate=inspect.ismethod), the marked ones
getmembers(klass) == SelectSeq(SetterNames, LAMBDA n : n \in marked_methods(klass))

\* method(obj, context) for the method of that name of an instance of klass
call_method(klass, method, obj, context) ==
    CASE method = "get_additional_properties" ->
            SchemaConverter_get_additional_properties(obj, context)
      [] method = "get_properties" -> SchemaConverter_get_properties(obj, context)
      [] method = "get_required" -> SchemaConverter_get_required(obj, context)
      [] method = "get_title" -> SchemaConverter_get_title(obj, context)
      [] method = "get_default" -> FieldConverter_get_default(obj, context)
      [] method = "get_nullable" -> FieldConverter_get_nullable(obj, context)
      [] method = "get_description" ->
            IF klass = "SchemaConverter"
            THEN SchemaConverter_get_description(obj, context)
            ELSE FieldConverter_get_description(obj, context)
      [] method = "get_items" ->
            IF klass = "SchemaConverter"
            THEN SchemaConverter_get_items(obj, context)
            ELSE ListConverter_get_items(obj, context)
      [] method = "get_format" ->
            (CASE klass = "DateTimeConverter" -> DateTimeConverter_get_format(obj, context)
               [] klass = "UUIDConverter" -> UUIDConverter_get_format(obj, context)
               [] klass = "DateConverter" -> DateConverter_get_format(obj, context))
      [] method = "get_collection_format" ->
            IF klass = "CsvArrayConverter"
            THEN CsvArrayConverter_get_collection_format(obj, context)
            ELSE MultiArrayConverter_get_collection_format(obj, context)
      [] method = "get_style" -> CsvArrayConverter_get_style(obj, context)
      [] method = "get_explode" ->
            IF klass = "CsvArrayConverter"
            THEN CsvArrayConverter_get_explode(obj, context)
            ELSE MultiArrayConverter_get_explode(obj, context)
      [] method = "get_enum" ->
            (CASE klass = "ConstantConverter" -> ConstantConverter_get_enum(obj, context)
               [] klass = "EnumConverter" -> EnumConverter_get_enum(obj, context)
               [] klass = "OneOfConverter" -> OneOfConverter_get_enum(obj, context))
      [] method = "get_minimum" -> RangeConverter_get_minimum(obj, context)
      [] method = "get_maximum" -> RangeConverter_get_maximum(obj, context)
      [] method = "get_minimum_items" -> LengthConverter_get_minimum_items(obj, context)
      [] method = "get_maximum_items" -> LengthConverter_get_maximum_items(obj, context)
      [] method = "get_minimum_length" -> LengthConverter_get_minimum_length(obj, context)
      [] method = "get_maximum_length" -> LengthConverter_get_maximum_length(obj, context)
      [] method = "get_type" ->
            (CASE klass = "SchemaConverter" -> SchemaConverter_get_type(obj, context)
              [] klass \in {"ListConverter", "CsvArrayConverter", "MultiArrayConverter"} ->
                    ListConverter_get_type(obj, context)
              [] klass = "DictConverter" -> DictConverter_get_type(obj, context)
              [] klass = "IntegerConverter" -> IntegerConverter_get_type(obj, context)
              [] klass = "StringConverter" -> StringConverter_get_type(obj, context)
              [] klass = "NumberConverter" -> NumberConverter_get_type(obj, context)
              [] klass = "BooleanConverter" -> BooleanConverter_get_type(obj, context)
              [] klass = "DateTimeConverter" -> DateTimeConverter_get_type(obj, context)
              [] klass = "UUIDConverter" -> UUIDConverter_get_type(obj, context)
              [] klass = "DateConverter" -> DateConverter_get_type(obj, context)
              [] klass = "MethodConverter" -> MethodConverter_get_type(obj, context)
              [] klass = "FunctionConverter" -> FunctionConverter_get_type(obj, context)
              [] klass = "EnumConverter" -> EnumConverter_get_type(obj, context))

\* for _, method in inspect.getmembers(...): val = method(obj, context);
\* if val is not UNSET: jsonschema_obj[getattr(method, _method_marker)] = val
RECURSIVE convert_loop(_, _, _, _, _, _)
\* faulty variant: a value is kept only when it is truthy (`if val:`)
convert_step_truthy(klass, methods, context, jsonschema_obj, calls, r) ==
    IF r.exc # "none"
    THEN [val |-> UNSET, exc |-> r.exc, obj |-> r.obj, calls |-> calls \o r.calls]
    ELSE convert_loop(klass, Tail(methods), r.obj, context,
            IF r.val # UNSET /\ truthy(r.val)
            THEN SetItem(jsonschema_obj, sets_swagger_attr[Head(methods)], r.val)
            ELSE jsonschema_obj,
            calls \o r.calls)

convert_step(klass, methods, context, jsonschema_obj, calls, r) ==
    IF r.exc # "none"
    THEN [val |-> UNSET, exc |-> r.exc, obj |-> r.obj, calls |-> calls \o r.calls]
    ELSE convert_loop(klass, Tail(methods), r.obj, context,
            IF r.val # UNSET
            THEN SetItem(jsonschema_obj, sets_swagger_attr[Head(methods)], r.val)
            ELSE jsonschema_obj,
            calls \o r.calls)

convert_loop(klass, methods, obj, context, jsonschema_obj, calls) ==
    IF methods = <<>>
    THEN [val |-> PyDict(jsonschema_obj), exc |-> "none", obj |-> obj, calls |-> calls]
    ELSE convert_step(klass, methods, context, jsonschema_obj, calls,
                      call_method(klass, Head(methods), obj, context))

MarshmallowConverter_convert(klass, obj, context) ==
    convert_loop(klass, getmembers(klass), obj, context, EmptyMap, <<>>)

RECURSIVE validators_loop(_, _, _, _, _)

\* faulty variant: the UnregisteredType of a validator is not caught
validators_loop_uncaught(validators, obj, context, jsonschema_obj, calls) ==
    IF validators = <<>>
    THEN [val |-> PyDict(jsonschema_obj), exc |-> "none", obj |-> obj, calls |-> calls]
    ELSE LET r == _convert(Head(validators),
                           _Context(context.convert, jsonschema_obj, context.schema,
                                    context.openapi_version),
                           "validator")
         IN  IF r.exc # "none"
             THEN [val |-> UNSET, exc |-> r.exc, obj |-> obj, calls |-> calls \o r.calls]
             ELSE validators_loop(Tail(validators), obj, context,
                                  update(jsonschema_obj, r.val[2]), calls \o r.calls)

\* faulty variant: the validators are given the memo of the field's own
\* context
validators_loop_own_memo(validators, obj, context, jsonschema_obj, calls) ==
    IF validators = <<>>
    THEN [val |-> PyDict(jsonschema_obj), exc |-> "none", obj |-> obj, calls |-> calls]
    ELSE LET r == _convert(Head(validators), context, "validator")
         IN  IF r.exc = "UnregisteredType"
             THEN validators_loop(Tail(validators), obj, context, jsonschema_obj,
                                  calls \o r.calls)
             ELSE IF r.exc # "none"
             THEN [val |-> UNSET, exc |-> r.exc, obj |-> obj, calls |-> calls \o r.calls]
             ELSE validators_loop(Tail(validators), obj, context,
                                  update(jsonschema_obj, r.val[2]), calls \o r.calls)

\* for validator in validators: try: jsonschema_obj.update(context.convert(...))
\* except UnregisteredType: logging.debug(...)
validators_loop(validators, obj, context, jsonschema_obj, calls) ==
    IF validators = <<>>
    THEN [val |-> PyDict(jsonschema_obj), exc |-> "none", obj |-> obj, calls |-> calls]
    ELSE LET r == _convert(Head(validators),
                           _Context(context.convert, jsonschema_obj, context.schema,
                                    context.openapi_version),
                           "validator")
         IN  IF r.exc = "UnregisteredType"
             THEN validators_loop(Tail(validators), obj, context, jsonschema_obj,
                                  calls \o r.calls)
             ELSE IF r.exc # "none"
             THEN [val |-> UNSET, exc |-> r.exc, obj |-> obj, calls |-> calls \o r.calls]
             ELSE validators_loop(Tail(validators), obj, context,
                                  update(jsonschema_obj, r.val[2]), calls \o r.calls)

\* FieldConverter.convert after super().convert(obj, context) has ended as r
FieldConverter_convert_rest(r, context) ==
    IF r.exc # "none" THEN r
    ELSE LET jsonschema_obj == IF r.obj.dump_only
                               THEN SetItem(r.val[2], "readOnly", PyBool(TRUE))
                               ELSE r.val[2]
         IN  IF truthy(r.obj.validate)
             THEN validators_loop(_normalize_validate(r.obj.validate)[2], r.obj,
                                  context, jsonschema_obj, r.calls)
             ELSE [r EXCEPT !.val = PyDict(jsonschema_obj)]

FieldConverter_convert(klass, obj, context) ==
    FieldConverter_convert_rest(MarshmallowConverter_convert(klass, obj, context), context)

\* faulty variant: the Nested field's own attributes and validators are
\* merged into the mapping of its schema
NestedConverter_convert_with_own(obj, context) ==
    LET r == _convert(obj.schema, context, "nested")
        own == FieldConverter_convert("NestedConverter", obj, context)
    IN  IF r.exc # "none" \/ own.exc # "none"
        THEN [r EXCEPT !.obj = [obj EXCEPT !.schema = r.obj]]
        ELSE [r EXCEPT !.obj = [obj EXCEPT !.schema = r.obj],
                       !.val = PyDict(update(r.val[2], own.val[2]))]

NestedConverter_convert(obj, context) ==
    LET r == _convert(obj.schema, context, "nested")
    IN  [r EXCEPT !.obj = [obj EXCEPT !.schema = r.obj]]

\* converter.convert(obj=obj, context=context), by the converter's class
converter_convert(converter, obj, context) ==
    IF converter[1] = "NestedConverter" THEN NestedConverter_convert(obj, context)
    ELSE IF converter[1] \in FieldConverterClasses
    THEN FieldConverter_convert(converter[1], obj, context)
    ELSE MarshmallowConverter_convert(converter[1], obj, context)

\* the outcome r of a call, with the call put first in its record of calls
recorded(call, r) == [r EXCEPT !.calls = <<call>> \o r.calls]

\* faulty variant: an object with no registered converter converts to an empty mapping
_convert_lenient(obj, context, pos) ==
    LET found == _get_converter_for_type(context.convert, obj)
        call == [cls |-> obj.cls, pos |-> pos, memo |-> context.memo,
                 converter |-> found.conv]
    IN  IF found.exc # "none"
        THEN [val |-> PyDict(EmptyMap), exc |-> "none", obj |-> obj, calls |-> <<call>>]
        ELSE recorded(call, converter_convert(found.conv, obj, context))

\* ConverterRegistry._convert; the call is recorded with the memo it was given
_convert(obj, context, pos) ==
    LET found == _get_converter_for_type(context.convert, obj)
        call == [cls |-> obj.cls, pos |-> pos, memo |-> context.memo,
                 converter |-> found.conv]
    IN  IF found.exc # "none"
        THEN [val |-> UNSET, exc |-> found.exc, obj |-> obj, calls |-> <<call>>]
        ELSE recorded(call, converter_convert(found.conv, obj, context))

\* ConverterRegistry.convert
convert(tm, obj, openapi_version) ==
    _convert(obj, _Context(tm, EmptyMap, obj, openapi_version), "root")

----------------------------------------------------------------------------
(* The source objects the caller converts: marshmallow validators, fields *)
(* and schemas, as records of the attributes the converters read.         *)

\* no object: the inner field of a field that is no list, and the like
NoObj == [cls |-> "NoneType"]

validator(cls, min, max, choices) ==
    [cls |-> cls, min |-> min, max |-> max, choices |-> choices]

LengthV == validator("Length", PyInt(1), PyInt(3), <<>>)
LengthMinV == validator("Length", PyInt(1), None, <<>>)
RangeV0 == validator("Range", PyInt(0), None, <<>>)
RangeV1 == validator("Range", PyInt(1), PyInt(5), <<>>)
OneOfV == validator("OneOf", None, None, <<PyStr("x"), PyStr("y")>>)
ContainsOnlyV == validator("ContainsOnly", None, None, <<PyStr("y")>>)
RegexpV == validator("Regexp", None, None, <<>>)
\* a plain function used as a validator
FunctionV == validator("function", None, None, <<>>)

Validators == {LengthV, RangeV0, RangeV1, OneOfV, RegexpV}
AllValidators == Validators \cup {LengthMinV, ContainsOnlyV, FunctionV}

\* the sequences over S of length at most n
SeqsUpTo(S, n) == UNION {[1..k -> S] : k \in 0..n}

\* The values of a field's validate attribute.
ValidateOptions ==
    {None}
    \cup {PyList(vs) : vs \in SeqsUpTo(Validators, MaxValidators)}
    \cup {<<"callable", v>> : v \in AllValidators}
    \cup {PyList(<<FunctionV, LengthV>>), PyList(<<ContainsOnlyV, OneOfV>>),
          PyList(<<LengthMinV>>)}

Field(cls) ==
    [cls |-> cls, allow_none |-> FALSE, dump_only |-> FALSE, required |-> FALSE,
     data_key |-> None, validate |-> None, load_default |-> missing,
     metadata |-> EmptyMap, inner |-> NoObj, schema |-> NoObj,
     constant |-> IF cls = "Constant" THEN PyStr("k") ELSE None,
     by_value |-> FALSE,
     enum |-> IF cls = "Enum"
              THEN <<[name |-> "RED", value |-> PyInt(1)],
                     [name |-> "BLUE", value |-> PyInt(2)]>>
              ELSE <<>>]

Described == [description |-> PyStr("text"), swagger_type |-> PyStr("string")]

\* the field classes whose instances hold no other object
LeafClasses == FieldClasses \ {"List", "CommaSeparatedList", "QueryParamList", "Nested"}

LeafFields ==
    {[Field(cls) EXCEPT !.allow_none = an, !.dump_only = do, !.metadata = md] :
        cls \in LeafClasses, an \in BOOLEAN, do \in BOOLEAN,
        md \in {EmptyMap, Described}}
    \cup {[Field("String") EXCEPT !.load_default = d] :
            d \in {None, PyStr("x"), <<"callable", "f">>}}
    \cup {[Field("Enum") EXCEPT !.by_value = TRUE, !.allow_none = an] : an \in BOOLEAN}
    \cup {[Field("Enum") EXCEPT !.by_value = TRUE,
              !.enum = <<[name |-> "RED", value |-> PyStr("r")]>>]}

ValidatedFields ==
    {[Field(cls) EXCEPT !.validate = v, !.metadata = Described] :
        cls \in {"String", "Integer", "Constant", "Enum", "Method"},
        v \in ValidateOptions}
    \cup {[Field("String") EXCEPT !.allow_none = TRUE, !.validate = v] :
            v \in ValidateOptions}
    \cup {[Field("String") EXCEPT !.dump_only = TRUE,
                                  !.validate = PyList(<<LengthV, RangeV1>>)]}

ListClasses == {"List", "CommaSeparatedList", "QueryParamList"}

InnerFields ==
    {Field("String"), Field("Integer"), Field("Raw"), Field("Method"),
     [Field("String") EXCEPT !.allow_none = TRUE, !.validate = PyList(<<LengthV>>)],
     [Field("List") EXCEPT !.inner = Field("String")]}

ListFields ==
    {[Field(cls) EXCEPT !.allow_none = an, !.inner = inner, !.validate = v] :
        cls \in ListClasses, an \in BOOLEAN, inner \in InnerFields,
        v \in {None, PyList(<<LengthV>>), PyList(<<RegexpV, LengthV>>),
               PyList(<<LengthMinV>>)}}

----------------------------------------------------------------------------
(* Schemas *)

decl(name, field) == [name |-> name, field |-> field]

Schema(cls, fields) ==
    [cls |-> cls, many |-> FALSE, partial |-> None, ordered |-> FALSE,
     unknown |-> "raise", doc |-> None, swagger_title |-> None, fields |-> fields]

Required(f) == [f EXCEPT !.required = TRUE]
Keyed(f, k) == [f EXCEPT !.data_key = PyStr(k)]

\* The declarations the schemas of the required-list family are made of.
RequiredDecls ==
    {decl("a", Required(Field("String"))),
     decl("b", Field("Integer")),
     decl("b", Required(Field("Integer"))),
     decl("b", Keyed(Required(Field("Integer")), "z")),
     decl("c", Keyed(Required(Field("String")), "a")),
     decl("c", Required(Field("Boolean")))}

\* The declarations the schemas of the structure family are made of.
StructureDecls ==
    {decl("a", Required(Field("String"))),
     decl("b", Field("Raw")),
     decl("b", Field("Method")),
     decl("c", [Field("String") EXCEPT !.validate = PyList(<<RegexpV, LengthV>>)]),
     decl("c", [Field("List") EXCEPT !.inner = Field("Raw")])}

WireNames(fields) ==
    {get_data_key(fields[i].name, fields[i].field) : i \in 1..Len(fields)}

\* the field lists a schema class can declare: names and wire-names distinct
FieldLists(decls) ==
    {fs \in SeqsUpTo(decls, MaxFields) :
        /\ Cardinality({fs[i].name : i \in 1..Len(fs)}) = Len(fs)
        /\ Cardinality(WireNames(fs)) = Len(fs)}

Collection(S) == <<"collection", S>>

PartialOptions ==
    {None, PyBool(TRUE), Collection({}), Collection({"a"}),
     Collection({"b"}), Collection({"c"}), Collection({"a", "b"})}

RequiredSchemas ==
    {[Schema("UserSchema", fs) EXCEPT !.partial = p, !.ordered = o] :
        fs \in FieldLists(RequiredDecls), p \in PartialOptions, o \in BOOLEAN}

StructureSchemas ==
    {[Schema("UserSchema", fs) EXCEPT !.many = m, !.unknown = u] :
        fs \in FieldLists(StructureDecls), m \in BOOLEAN,
        u \in {"raise", "include", "bogus"}}
    \cup {[Schema("UserSchema", <<decl("a", Field("String"))>>)
              EXCEPT !.many = m, !.unknown = "exclude", !.doc = d, !.partial = p] :
            m \in BOOLEAN, d \in {None, PyStr("doc"), PyStr("")},
            p \in {None, PyBool(FALSE)}}

ManySchemas ==
    {[Schema(cls, fs) EXCEPT !.many = TRUE, !.partial = p, !.swagger_title = t] :
        cls \in {"Schema", "UserSchema"},
        fs \in {<<>>, <<decl("a", Required(Field("String")))>>,
                <<decl("b", Required(Field("Integer"))),
                  decl("a", Required(Field("String")))>>},
        p \in {None, PyBool(TRUE), Collection({"a"})},
        t \in {None, PyStr("Title")}}

InnerSchemas ==
    {Schema("UserSchema", <<decl("a", Required(Field("String")))>>),
     [Schema("UserSchema", <<decl("a", Required(Field("String")))>>) EXCEPT !.many = TRUE],
     Schema("UserSchema", <<decl("b", Field("Raw"))>>),
     [Schema("UserSchema", <<>>) EXCEPT !.unknown = "bogus"]}

NestedFields ==
    {[Field("Nested") EXCEPT !.schema = sc, !.dump_only = do, !.allow_none = an,
                             !.validate = v, !.metadata = md] :
        sc \in InnerSchemas, do \in BOOLEAN, an \in BOOLEAN,
        v \in {None, PyList(<<LengthV>>)}, md \in {EmptyMap, Described}}

NestingSchemas ==
    {[Schema("UserSchema", <<decl("a", f)>>) EXCEPT !.many = m] :
        f \in {nf \in NestedFields : nf.validate = None /\ ~nf.allow_none}
              \cup {[Field("List") EXCEPT !.inner = nf] :
                        nf \in {x \in NestedFields : x.validate = None /\ ~x.allow_none
                                                     /\ x.metadata = EmptyMap}},
        m \in BOOLEAN}

----------------------------------------------------------------------------
(* The calls the caller makes *)

\* The objects converted with the registries as the module initialised them.
RootObjects ==
    AllValidators \cup LeafFields \cup ValidatedFields \cup ListFields
    \cup NestedFields \cup RequiredSchemas \cup StructureSchemas \cup ManySchemas
    \cup NestingSchemas

\* The objects converted after the caller has registered converters.
ProbeObjects ==
    {Field("String"), Field("Email"), Field("Raw"), Field("Integer"),
     [Field("String") EXCEPT !.validate = PyList(<<RegexpV, LengthV>>)],
     [Field("CommaSeparatedList") EXCEPT !.inner = Field("UUID")],
     [Field("List") EXCEPT !.inner = Field("Raw")],
     [Field("Nested") EXCEPT !.schema = Schema("UserSchema", <<decl("a", Field("Raw"))>>)],
     Schema("UserSchema", <<decl("a", Required(Field("String")))>>),
     [Schema("UserSchema", <<decl("a", Field("Raw"))>>) EXCEPT !.many = TRUE],
     RegexpV, ContainsOnlyV}

Versions == {2, 3}

\* The converters the caller registers.
UserConverters ==
    {New("StringConverter", 5), New("FieldConverter", 5), New("SchemaConverter", 5)}

\* The registries the caller registers converters with.
RegisterTargets == {"custom", "query_string"}

\* The registries the objects of RootObjects are converted with; headers and
\* response are built as query_string and request_body are.
RootRegistries == {"query_string", "request_body"}

\* The objects the caller converts with registry reg.
CallObjects(reg, registered) ==
    IF registered = 0 /\ reg \in RootRegistries THEN RootObjects ELSE ProbeObjects

----------------------------------------------------------------------------
(* The state machine *)

NoCall == [reg |-> "none"]

\* no operation of the other modules made yet
NoOp == [op |-> "none"]

\* The type map of each registry when the module has been imported.
imported_type_map ==
    [r \in Registries |->
        CASE r = "query_string" -> query_string_converter_registry
          [] r = "headers" -> headers_converter_registry
          [] r = "request_body" -> request_body_converter_registry
          [] r = "response" -> response_converter_registry
          [] r = "custom" -> ConverterRegistry]

\* The converters each registry was given when the module was imported.
imported_converters ==
    [r \in Registries |->
        CASE r = "query_string" ->
                _common_converters(1)
                \o <<New("CsvArrayConverter", 1), New("MultiArrayConverter", 1)>>
          [] r = "headers" ->
                _common_converters(2)
                \o <<New("CsvArrayConverter", 2), New("MultiArrayConverter", 2)>>
          [] r = "request_body" ->
                _common_converters(3)
                \o <<New("DictConverter", 3), New("NestedConverter", 3)>>
          [] r = "response" ->
                _common_converters(4)
                \o <<New("DictConverter", 4), New("NestedConverter", 4)>>
          [] r = "custom" -> <<>>]

\* no call has created a dict
NoDicts == [t \in 1..MaxThreads |-> <<>>]

\* The state after the module is imported.
Init ==
    /\ type_map = imported_type_map
    /\ nreg = 0
    /\ pc = "idle"
    /\ last = NoCall
    /\ log = imported_converters
    /\ prev = NoCall
    /\ threads = <<>>
    /\ heap = NoDicts
    /\ __instance = None
    /\ stored = <<>>
    /\ dcall = NoOp
    /\ fcall = NoOp

\* registry.register_type(converter)
RegisterType(reg, converter) ==
    /\ pc = "idle"
    /\ nreg < MaxRegs
    /\ type_map' = [type_map EXCEPT ![reg] = register_type(@, converter)]
    /\ nreg' = nreg + 1
    /\ log' = [log EXCEPT ![reg] = Append(@, converter)]
    /\ UNCHANGED <<pc, last, prev, threads, heap, others>>

\* faulty variant: the converter found for the object is stored in the type
\* map under the object's own class
Convert_caching(reg, obj, openapi_version) ==
    /\ pc = "idle"
    /\ LET r == convert(type_map[reg], obj, openapi_version)
       IN  /\ last' = [reg |-> reg, obj |-> obj, openapi_version |-> openapi_version,
                       val |-> r.val, exc |-> r.exc, obj_after |-> r.obj,
                       calls |-> r.calls]
           /\ type_map' = [type_map EXCEPT ![reg] =
                              IF r.calls[1].converter = None THEN @
                              ELSE SetItem(@, obj.cls, r.calls[1].converter)]
    /\ pc' = "called"
    /\ UNCHANGED <<nreg, log, prev, threads, heap, others>>

\* registry.convert(obj, openapi_version)
Convert(reg, obj, openapi_version) ==
    /\ pc = "idle"
    /\ LET r == convert(type_map[reg], obj, openapi_version)
       IN  last' = [reg |-> reg, obj |-> obj, openapi_version |-> openapi_version,
                    val |-> r.val, exc |-> r.exc, obj_after |-> r.obj,
                    calls |-> r.calls]
    /\ pc' = "called"
    /\ UNCHANGED <<type_map, nreg, log, prev, threads, heap, others>>

\* The caller is done with the outcome of the call.
Discard ==
    /\ pc = "called"
    /\ pc' = "idle"
    /\ last' = NoCall
    /\ UNCHANGED <<type_map, nreg, log, prev, threads, heap, others>>

Next ==
    \/ \E reg \in RegisterTargets, converter \in UserConverters :
          RegisterType(reg, converter)
    \/ \E reg \in Registries, openapi_version \in Versions :
          \E obj \in CallObjects(reg, nreg) : Convert(reg, obj, openapi_version)
    \/ Discard

Spec == Init /\ [][Next]_vars

----------------------------------------------------------------------------
(* The registrations alone: register_type and register_types, in any order *)

\* The converters the caller registers: two instances are bound to String,
\* as the catalog's own String converter is.
RegConverters ==
    UserConverters \cup {New("StringConverter", 6), New("UUIDConverter", 6)}

\* The lists the caller passes to register_types.
ConverterLists ==
    {<<>>,
     <<New("StringConverter", 5), New("StringConverter", 6)>>,
     <<New("StringConverter", 6), New("FieldConverter", 5), New("StringConverter", 5)>>,
     <<New("SchemaConverter", 5), New("UUIDConverter", 6), New("SchemaConverter", 5)>>}

\* registry.register_types(converters)
RegisterTypes(reg, converters) ==
    /\ pc = "idle"
    /\ nreg < MaxRegs
    /\ type_map' = [type_map EXCEPT ![reg] = register_types(@, converters)]
    /\ nreg' = nreg + 1
    /\ log' = [log EXCEPT ![reg] = @ \o converters]
    /\ UNCHANGED <<pc, last, prev, threads, heap, others>>

RegNext ==
    \/ \E reg \in RegisterTargets, converter \in RegConverters :
          RegisterType(reg, converter)
    \/ \E reg \in RegisterTargets, converters \in ConverterLists :
          RegisterTypes(reg, converters)

RegSpec == Init /\ [][RegNext]_vars

----------------------------------------------------------------------------
(* A call repeated: the caller makes the call it made last once more, with *)
(* the same registry, the same object, as the first call left it, and the  *)
(* same version.                                                           *)

\* registry.convert(obj, openapi_version), a second time
ConvertAgain ==
    /\ pc = "called"
    /\ LET r == convert(type_map[last.reg], last.obj_after, last.openapi_version)
       IN  last' = [reg |-> last.reg, obj |-> last.obj_after,
                    openapi_version |-> last.openapi_version,
                    val |-> r.val, exc |-> r.exc, obj_after |-> r.obj,
                    calls |-> r.calls]
    /\ prev' = last
    /\ pc' = "repeated"
    /\ UNCHANGED <<type_map, nreg, log, threads, heap, others>>

\* The caller is done with the outcomes of both calls.
DiscardBoth ==
    /\ pc = "repeated"
    /\ pc' = "idle"
    /\ last' = NoCall
    /\ prev' = NoCall
    /\ UNCHANGED <<type_map, nreg, log, threads, heap, others>>

TwiceNext == Next \/ ConvertAgain \/ DiscardBoth

TwiceSpec == Init /\ [][TwiceNext]_vars

----------------------------------------------------------------------------
(* Concurrent convert calls on one registry.  A call advances by one step *)
(* at a time: the lookup, the creation of a dict, one setter invocation,   *)
(* the dump_only test, the lookup of one validator, the return of a        *)
(* converter.  A dict is an address of the heap, so that two names of one *)
(* dict see each other's writes.  A setter that calls context.convert for *)
(* an inner field or schema runs to its end in one step.                  *)

\* The registry the concurrent calls are made on.
ConcRegistry == "request_body"

\* The (object, openapi_version) pairs the concurrent calls convert.
ConcCalls ==
    {<<[Field("String") EXCEPT !.dump_only = TRUE,
                               !.validate = PyList(<<RegexpV, LengthV>>)], 3>>,
     <<[Field("List") EXCEPT !.inner = Field("String"),
                             !.validate = PyList(<<LengthV>>)], 2>>,
     <<LengthV, 2>>,
     <<Schema("UserSchema", <<decl("a", Required(Field("String")))>>), 2>>,
     <<[Field("Nested") EXCEPT
           !.schema = Schema("UserSchema", <<decl("a", Field("Integer"))>>)], 3>>}

\* the dict at address a
Deref(h, a) == h[a[1]][a[2]]

\* the heap with d as the dict at address a
Store(h, a, d) == [h EXCEPT ![a[1]][a[2]] = d]

\* faulty variant: one dict, created once, serves every call
new_dict_shared(h, t) ==
    [heap |-> IF h[1] = <<>> THEN [h EXCEPT ![1] = <<EmptyMap>>] ELSE h,
     addr |-> <<1, 1>>]

\* {} evaluated by call t: the heap with a new empty dict, and its address
new_dict(h, t) ==
    [heap |-> [h EXCEPT ![t] = Append(@, EmptyMap)],
     addr |-> <<t, Len(h[t]) + 1>>]

\* the phase of converter.convert once `methods` are the setters left
after_setters(klass, methods) ==
    IF methods # <<>> THEN "setters"
    ELSE IF klass \in FieldConverterClasses THEN "dump_only"
    ELSE "return"

\* converter.convert(obj, context) about to start; memo is the address of
\* context.memo, addr that of jsonschema_obj once it is created
Frame(klass, obj, memo) ==
    [klass |-> klass, obj |-> obj, memo |-> memo, addr |-> <<0, 0>>,
     methods |-> getmembers(klass), validators |-> <<>>, phase |-> "begin"]

Top(t) == threads[t].stack[Len(threads[t].stack)]

Running(t) == t \in DOMAIN threads /\ threads[t].status = "running"

\* the stack with its top frame replaced
SetTop(stack, f) == [stack EXCEPT ![Len(stack)] = f]

\* the stack without its top frame
Pop(stack) == SubSeq(stack, 1, Len(stack) - 1)

\* the context the top frame of call t was given
ContextOf(t) ==
    _Context(type_map[ConcRegistry], Deref(heap, Top(t).memo), threads[t].obj,
             threads[t].openapi_version)

\* Call t after exception exc left its top frame: the validators loop of
\* FieldConverter.convert catches UnregisteredType, anything else ends the call.
Unwound(t, exc) ==
    LET stack == threads[t].stack
    IN  IF exc = "UnregisteredType" /\ Len(stack) > 1
        THEN [threads[t] EXCEPT !.stack =
                 SetTop(Pop(stack),
                        [stack[Len(stack) - 1] EXCEPT !.validators = Tail(@)])]
        ELSE [threads[t] EXCEPT !.stack = <<>>, !.status = "raised", !.exc = exc]

\* registry.convert(obj, openapi_version) up to the converter's convert:
\* memo={} and the lookup of the converter
ConcCall(obj, openapi_version) ==
    /\ Len(threads) < MaxThreads
    /\ LET memo == new_dict(heap, Len(threads) + 1)
           found == _get_converter_for_type(type_map[ConcRegistry], obj)
           call == [obj |-> obj, openapi_version |-> openapi_version,
                    dicts |-> {memo.addr}, stack |-> <<>>, status |-> "raised",
                    val |-> UNSET, exc |-> found.exc]
       IN  /\ heap' = memo.heap
           /\ threads' = Append(threads,
                  IF found.exc # "none" THEN call
                  ELSE [call EXCEPT !.status = "running",
                                    !.stack = <<Frame(found.conv[1], obj, memo.addr)>>])
    /\ UNCHANGED <<type_map, nreg, pc, last, log, prev, others>>

\* NestedConverter.convert ended as r
NestedEnds(t, r) ==
    IF r.exc # "none"
    THEN /\ threads' = [threads EXCEPT ![t] = Unwound(t, r.exc)]
         /\ heap' = heap
    ELSE LET made == new_dict(heap, t)
         IN  /\ heap' = Store(made.heap, made.addr, r.val[2])
             /\ threads' = [threads EXCEPT ![t] =
                   [@ EXCEPT !.dicts = @ \cup {made.addr},
                             !.stack = SetTop(@, [Top(t) EXCEPT !.addr = made.addr,
                                                                !.obj = r.obj,
                                                                !.phase = "return"])]]

\* converter.convert is entered: jsonschema_obj = {}
Begin(t) ==
    /\ Running(t)
    /\ Top(t).phase = "begin"
    /\ IF Top(t).klass = "NestedConverter"
       THEN NestedEnds(t, NestedConverter_convert(Top(t).obj, ContextOf(t)))
       ELSE LET made == new_dict(heap, t)
            IN  /\ heap' = made.heap
                /\ threads' = [threads EXCEPT ![t] =
                      [@ EXCEPT !.dicts = @ \cup {made.addr},
                                !.stack = SetTop(@,
                                   [Top(t) EXCEPT !.addr = made.addr,
                                        !.phase = after_setters(Top(t).klass,
                                                                Top(t).methods)])]]
    /\ UNCHANGED <<type_map, nreg, pc, last, log, prev, others>>

\* the setter invoked ended as r: if val is not UNSET: jsonschema_obj[...] = val
SetterEnds(t, r) ==
    IF r.exc # "none"
    THEN /\ threads' = [threads EXCEPT ![t] = Unwound(t, r.exc)]
         /\ heap' = heap
    ELSE /\ heap' = IF r.val = UNSET THEN heap
                    ELSE Store(heap, Top(t).addr,
                               SetItem(Deref(heap, Top(t).addr),
                                       sets_swagger_attr[Head(Top(t).methods)], r.val))
         /\ threads' = [threads EXCEPT ![t].stack =
               SetTop(@, [Top(t) EXCEPT !.obj = r.obj,
                                        !.methods = Tail(@),
                                        !.phase = after_setters(Top(t).klass,
                                                                Tail(Top(t).methods))])]

\* one turn of the loop of MarshmallowConverter.convert
Setter(t) ==
    /\ Running(t)
    /\ Top(t).phase = "setters"
    /\ SetterEnds(t, call_method(Top(t).klass, Head(Top(t).methods), Top(t).obj,
                                 ContextOf(t)))
    /\ UNCHANGED <<type_map, nreg, pc, last, log, prev, others>>

\* if obj.dump_only: jsonschema_obj["readOnly"] = True; if obj.validate: ...
DumpOnly(t) ==
    /\ Running(t)
    /\ Top(t).phase = "dump_only"
    /\ heap' = IF Top(t).obj.dump_only
               THEN Store(heap, Top(t).addr,
                          SetItem(Deref(heap, Top(t).addr), "readOnly", PyBool(TRUE)))
               ELSE heap
    /\ threads' = [threads EXCEPT ![t].stack =
          SetTop(@, IF truthy(Top(t).obj.validate)
                    THEN [Top(t) EXCEPT
                             !.validators = _normalize_validate(Top(t).obj.validate)[2],
                             !.phase = "validators"]
                    ELSE [Top(t) EXCEPT !.phase = "return"])]
    /\ UNCHANGED <<type_map, nreg, pc, last, log, prev, others>>

\* one turn of the validators loop up to the validator converter's convert:
\* the lookup, whose UnregisteredType is caught, and the context with
\* memo=jsonschema_obj
Validator(t) ==
    /\ Running(t)
    /\ Top(t).phase = "validators"
    /\ threads' = [threads EXCEPT ![t] =
          IF Top(t).validators = <<>>
          THEN [@ EXCEPT !.stack = SetTop(@, [Top(t) EXCEPT !.phase = "return"])]
          ELSE LET found == _get_converter_for_type(type_map[ConcRegistry],
                                                    Head(Top(t).validators))
               IN  IF found.exc = "UnregisteredType"
                   THEN [@ EXCEPT !.stack =
                            SetTop(@, [Top(t) EXCEPT !.validators = Tail(@)])]
                   ELSE [@ EXCEPT !.stack =
                            Append(@, Frame(found.conv[1], Head(Top(t).validators),
                                            Top(t).addr))]]
    /\ heap' = heap
    /\ UNCHANGED <<type_map, nreg, pc, last, log, prev, others>>

\* return jsonschema_obj: to the caller of registry.convert, or to the
\* validators loop, which does jsonschema_obj.update(...) with it
ReturnDict(t) ==
    /\ Running(t)
    /\ Top(t).phase = "return"
    /\ LET stack == threads[t].stack
           caller == stack[Len(stack) - 1]
       IN  IF Len(stack) = 1
           THEN /\ threads' = [threads EXCEPT ![t] =
                      [@ EXCEPT !.stack = <<>>, !.status = "returned",
                                !.val = PyDict(Deref(heap, Top(t).addr))]]
                /\ heap' = heap
           ELSE /\ heap' = Store(heap, caller.addr,
                                 update(Deref(heap, caller.addr),
                                        Deref(heap, Top(t).addr)))
                /\ threads' = [threads EXCEPT ![t].stack =
                      SetTop(Pop(@), [caller EXCEPT !.validators = Tail(@)])]
    /\ UNCHANGED <<type_map, nreg, pc, last, log, prev, others>>

\* The callers are done with the outcomes of the calls.
Collect ==
    /\ threads # <<>>
    /\ \A t \in DOMAIN threads : threads[t].status # "running"
    /\ threads' = <<>>
    /\ heap' = NoDicts
    /\ UNCHANGED <<type_map, nreg, pc, last, log, prev, others>>

ConcNext ==
    \/ \E c \in ConcCalls : ConcCall(c[1], c[2])
    \/ \E t \in 1..MaxThreads :
          Begin(t) \/ Setter(t) \/ DumpOnly(t) \/ Validator(t) \/ ReturnDict(t)
    \/ Collect

ConcSpec == Init /\ [][ConcNext]_vars

----------------------------------------------------------------------------
(* utils.deprecation: the DeprecationConfig singleton and the decorator    *)
(* deprecated_parameters.  A DeprecationConfig object is the tuple of its  *)
(* class, its identity and its warning_type; kwargs are functions from keyword names *)
(* to values; the aliases of a decorator are a sequence of                *)
(* <<alias, new_spec>> pairs in the order of the decorator's keywords.    *)

Tuple(xs) == <<"tuple", xs>>

\* str(x) of a str
str(x) == PyStr(x[2])

\* a DeprecationConfig object
Object(id, warning_type) == <<"DeprecationConfig", id, warning_type>>

\* DeprecationConfig.__init__ on a new object, with the class attribute
\* inst and the assignments st made to it so far
DeprecationConfig(inst, st) ==
    IF inst # None
    THEN [val |-> None, exc |-> "Exception", instance |-> inst, stored |-> st]
    ELSE LET self == Object(Len(st) + 1, "FutureWarning")
         IN  [val |-> PyInt(self[2]), exc |-> "none", instance |-> self,
              stored |-> Append(st, self[2])]

\* faulty variant: every call constructs, and the constructor replaces the
\* stored instance
getInstance_always_new(inst, st) ==
    LET self == Object(Len(st) + 1, "FutureWarning")
    IN  [val |-> PyInt(self[2]), exc |-> "none", instance |-> self,
         stored |-> Append(st, self[2])]

\* DeprecationConfig.getInstance()
getInstance(inst, st) ==
    IF inst = None THEN DeprecationConfig(inst, st)
    ELSE [val |-> PyInt(inst[2]), exc |-> "none", instance |-> inst, stored |-> st]

DeprecationSpec(new_name, eol_version, coerce_func) ==
    [new_name |-> new_name, eol_version |-> eol_version, coerce_func |-> coerce_func]

_validated_deprecation_spec(spec) ==
    IF spec[1] = "tuple"
    THEN DeprecationSpec(
            IF Len(spec[2]) > 0 /\ truthy(spec[2][1]) THEN str(spec[2][1]) ELSE None,
            IF Len(spec[2]) > 1 /\ truthy(spec[2][2]) THEN str(spec[2][2]) ELSE None,
            IF Len(spec[2]) > 2 THEN spec[2][3] ELSE None)
    ELSE IF truthy(spec) THEN DeprecationSpec(str(spec), None, None)
    ELSE DeprecationSpec(None, None, None)

\* coerce_func(value) for the coerce functions the decorators are given
coerce_func(f, value) == PyInt(0 - value[2])

\* faulty variant: the replacement is added and the alias is kept
remapped_keeping_alias(remapped_args, alias, v) ==
    LET value == IF v.coerce_func # None
                 THEN coerce_func(v.coerce_func, remapped_args[alias])
                 ELSE remapped_args[alias]
    IN  [k \in DOMAIN remapped_args \cup {v.new_name[2]} |->
            IF k = v.new_name[2] THEN value ELSE remapped_args[k]]

\* value = remapped_args.pop(alias); if coerce_func is not None: value =
\* coerce_func(value); remapped_args[new] = value
remapped(remapped_args, alias, v) ==
    LET value == IF v.coerce_func # None
                 THEN coerce_func(v.coerce_func, remapped_args[alias])
                 ELSE remapped_args[alias]
    IN  [k \in (DOMAIN remapped_args \ {alias}) \cup {v.new_name[2]} |->
            IF k = v.new_name[2] THEN value ELSE remapped_args[k]]

\* for alias, new_spec in aliases.items(): ...; warned lists the
\* _deprecation_warning calls made
RECURSIVE remap_loop(_, _, _)
remap_step(items, remapped_args, warned, alias, v) ==
    IF alias \notin DOMAIN remapped_args
    THEN remap_loop(Tail(items), remapped_args, warned)
    ELSE IF v.new_name # None /\ v.new_name[2] \in DOMAIN remapped_args
    THEN [remapped |-> remapped_args, exc |-> "TypeError", warned |-> warned]
    ELSE remap_loop(Tail(items),
                    IF truthy(v.new_name) THEN remapped(remapped_args, alias, v)
                    ELSE remapped_args,
                    Append(warned, [old_name |-> alias, new_name |-> v.new_name,
                                    eol_version |-> v.eol_version]))

remap_loop(items, remapped_args, warned) ==
    IF items = <<>>
    THEN [remapped |-> remapped_args, exc |-> "none", warned |-> warned]
    ELSE remap_step(items, remapped_args, warned, Head(items)[1],
                    _validated_deprecation_spec(Head(items)[2]))

\* the outcome of _remap_kwargs whose loop ended as r, the caller's kwargs
\* being left as kwargs
remap_outcome(r, kwargs) ==
    [val |-> IF r.exc = "none" THEN PyDict(r.remapped) ELSE UNSET, exc |-> r.exc,
     warned |-> r.warned, kwargs |-> kwargs]

\* _remap_kwargs: remapped_args = dict(kwargs), the loop, return remapped_args
_remap_kwargs(func_name, kwargs, aliases) ==
    remap_outcome(remap_loop(aliases, kwargs, <<>>), kwargs)

(* The calls made to utils.deprecation *)

\* the keywords a caller passes, each with a value of its own
KeywordValue == [a |-> PyInt(1), b |-> PyInt(2), c |-> PyInt(3), x |-> PyInt(4)]

AllKwargs == {[k \in K |-> KeywordValue[k]] : K \in SUBSET {"a", "b", "c", "x"}}

\* the deprecated keyword names
AliasNames == {"a", "b", "c"}

\* the values of new_spec: a name, a tuple of name, end-of-life version and
\* coerce function, and malformed ones
NewSpecs ==
    {PyStr("b"),
     Tuple(<<PyStr("c"), PyStr("3.0"), <<"callable", "negate">>>>),
     Tuple(<<None, PyStr("3.0")>>),
     Tuple(<<PyStr("x")>>)}

\* the keyword arguments of a deprecated_parameters call, in order
AllAliases ==
    {al \in SeqsUpTo(AliasNames \X NewSpecs, MaxAliases) :
        Cardinality({al[i][1] : i \in 1..Len(al)}) = Len(al)}

WarningTypes == {"FutureWarning", "DeprecationWarning"}

\* DeprecationConfig.getInstance()
GetInstance ==
    /\ dcall = NoOp
    /\ LET r == getInstance(__instance, stored)
       IN  /\ __instance' = r.instance
           /\ stored' = r.stored
           /\ dcall' = [op |-> "getInstance", val |-> r.val, exc |-> r.exc]
    /\ UNCHANGED <<swagger, fcall>>

\* DeprecationConfig()
Construct ==
    /\ dcall = NoOp
    /\ LET r == DeprecationConfig(__instance, stored)
       IN  /\ __instance' = r.instance
           /\ stored' = r.stored
           /\ dcall' = [op |-> "DeprecationConfig", val |-> r.val, exc |-> r.exc]
    /\ UNCHANGED <<swagger, fcall>>

\* config.warning_type = w, config being the proxy of getInstance()
SetWarningType(w) ==
    /\ dcall = NoOp
    /\ LET r == getInstance(__instance, stored)
       IN  /\ __instance' = Object(r.instance[2], w)
           /\ stored' = r.stored
           /\ dcall' = [op |-> "setattr", val |-> r.val, exc |-> r.exc]
    /\ UNCHANGED <<swagger, fcall>>

\* wrapper(**kwargs) once _remap_kwargs has ended as r: the warnings were
\* issued with category config.warning_type, and f is called unless
\* _remap_kwargs raised
WrapperEnds(aliases, kwargs, r, g) ==
    /\ __instance' = IF r.warned = <<>> THEN __instance ELSE g.instance
    /\ stored' = IF r.warned = <<>> THEN stored ELSE g.stored
    /\ dcall' = [op |-> "wrapper", aliases |-> aliases, kwargs |-> kwargs,
                 kwargs_after |-> r.kwargs, exc |-> r.exc,
                 called |-> r.exc = "none", received |-> r.val,
                 warnings |-> [i \in 1..Len(r.warned) |->
                                  [message |-> r.warned[i],
                                   category |-> g.instance[3]]]]

\* a call of a function decorated with deprecated_parameters(**aliases)
Wrapper(aliases, kwargs) ==
    /\ dcall = NoOp
    /\ WrapperEnds(aliases, kwargs, _remap_kwargs("f", kwargs, aliases),
                   getInstance(__instance, stored))
    /\ UNCHANGED <<swagger, fcall>>

\* The caller is done with the outcome of the operation.
Forget ==
    /\ dcall # NoOp
    /\ dcall' = NoOp
    /\ UNCHANGED <<swagger, __instance, stored, fcall>>

DepNext ==
    \/ Forget
    \/ GetInstance
    \/ Construct
    \/ \E w \in WarningTypes : SetWarningType(w)
    \/ \E aliases \in AllAliases, kwargs \in AllKwargs : Wrapper(aliases, kwargs)

DepSpec == Init /\ [][DepNext]_vars

----------------------------------------------------------------------------
(* framing.marshmallow_to_jsonschema: the legacy parameter-list flattener. *)
(* A JSONSchema mapping is a function from its keys to values; the value   *)
(* of "properties" is <<"odict", items>>, the <<name, mapping>> pairs in   *)
(* the order of the dict.                                                  *)

OrderedDict(items) == <<"odict", items>>

\* obj.get(key, default)
get(d, key, default) == IF key \in DOMAIN d THEN d[key] ELSE default

\* name in required, for a list of names
in_list(name, required) == \E i \in 1..Len(required[2]) : required[2][i] = PyStr(name)

\* parameter['required'] = name in required; parameter['in'] = in_;
\* parameter['name'] = name
assigned(parameter, name, in_, required) ==
    PyDict(SetItem(SetItem(SetItem(parameter[2],
                                   "required", PyBool(in_list(name, required))),
                           "in", PyStr(in_)),
                   "name", PyStr(name)))

\* faulty variant: parameter = prop, so that the assignments are made to the
\* property mapping of the input
loop_body_no_copy(obj, i, in_, required) ==
    LET name == obj["properties"][2][i][1]
        prop == obj["properties"][2][i][2]
        parameter == assigned(prop, name, in_, required)
    IN  [parameter |-> parameter,
         obj |-> [obj EXCEPT !["properties"] =
                     OrderedDict([@[2] EXCEPT ![i] = <<name, parameter>>])]]

\* one turn of the loop: parameter = copy.deepcopy(prop) and the three
\* assignments, made to the copy; obj is the input as the turn leaves it
loop_body(obj, i, in_, required) ==
    LET name == obj["properties"][2][i][1]
        prop == obj["properties"][2][i][2]
    IN  [parameter |-> assigned(prop, name, in_, required), obj |-> obj]

\* for name, prop in obj['properties'].items(): ...; parameters.append(parameter)
RECURSIVE parameters_loop(_, _, _, _, _)
parameters_turn(i, in_, required, parameters, turn) ==
    parameters_loop(i + 1, turn.obj, in_, required, Append(parameters, turn.parameter))

parameters_loop(i, obj, in_, required, parameters) ==
    IF i > Len(obj["properties"][2])
    THEN [val |-> PyList(parameters), exc |-> "none", obj |-> obj]
    ELSE parameters_turn(i, in_, required, parameters, loop_body(obj, i, in_, required))

convert_jsonschema_to_list_of_parameters(obj, in_) ==
    IF "type" \notin DOMAIN obj THEN [val |-> UNSET, exc |-> "KeyError", obj |-> obj]
    ELSE IF obj["type"] # PyStr("object")
    THEN [val |-> UNSET, exc |-> "AssertionError", obj |-> obj]
    ELSE IF "properties" \notin DOMAIN obj
    THEN [val |-> UNSET, exc |-> "KeyError", obj |-> obj]
    ELSE parameters_loop(1, obj, in_, get(obj, "required", PyList(<<>>)), <<>>)

(* The calls made to the flattener *)

PropertyNames == {"p", "q", "r"}

\* the mappings of the properties: a plain one, and one that nests a mapping
\* and has a "name" of its own
PropertyMappings ==
    {PyDict([type |-> PyStr("string")]),
     PyDict([type |-> PyStr("array"), items |-> PyDict([type |-> PyStr("integer")]),
             name |-> PyStr("old")])}

AllProperties ==
    {ps \in SeqsUpTo(PropertyNames \X PropertyMappings, MaxProperties) :
        Cardinality({ps[i][1] : i \in 1..Len(ps)}) = Len(ps)}

RequiredLists ==
    {PyList(<<>>), PyList(<<PyStr("p")>>), PyList(<<PyStr("q"), PyStr("p")>>),
     PyList(<<PyStr("zz")>>)}

\* a mapping with the keys of K among type, required and properties
JsonSchema(K, type, required, properties) ==
    [k \in K |-> CASE k = "type" -> PyStr(type)
                   [] k = "required" -> required
                   [] k = "properties" -> OrderedDict(properties)]

JsonSchemas ==
    {JsonSchema(K, type, required, properties) :
        K \in {{"type", "properties"}, {"type", "required", "properties"}},
        type \in {"object", "array"}, required \in RequiredLists,
        properties \in AllProperties}
    \cup {JsonSchema(K, "object", PyList(<<PyStr("p")>>), <<>>) :
            K \in {{"type"}, {"properties"}, {"type", "required"}}}

Positions == {"query", "header"}

\* convert_jsonschema_to_list_of_parameters(obj, in_)
Flatten(obj, in_) ==
    /\ fcall = NoOp
    /\ LET r == convert_jsonschema_to_list_of_parameters(obj, in_)
       IN  fcall' = [op |-> "convert_jsonschema_to_list_of_parameters",
                     obj |-> obj, in_ |-> in_, val |-> r.val, exc |-> r.exc,
                     obj_after |-> r.obj]
    /\ UNCHANGED <<swagger, __instance, stored, dcall>>

\* The caller is done with the list returned.
Drop ==
    /\ fcall # NoOp
    /\ fcall' = NoOp
    /\ UNCHANGED <<swagger, __instance, stored, dcall>>

FlatNext ==
    \/ \E obj \in JsonSchemas, in_ \in Positions : Flatten(obj, in_)
    \/ Drop

FlatSpec == Init /\ [][FlatNext]_vars

----------------------------------------------------------------------------
(* Properties *)

Called == pc = "called"

\* the type map the call made last was made with
CallTypeMap == type_map[last.reg]

\* the call was made with a catalog registry as the module initialised it
CatalogCall ==
    /\ last.reg \in CatalogRegistries
    /\ type_map[last.reg] = imported_type_map[last.reg]

Registered(tm, cls) == \E k \in 1..Len(MRO[cls]) : MRO[cls][k] \in DOMAIN tm

ReturnedDict == last.exc = "none" /\ last.val[1] = "map"

\* C1: every lookup made during a convert call returns the converter
\* registered for the first class of the object's method-resolution order
\* (most-derived first) that is a key of the type map, and fails only when
\* no class of the order is a key; so an exact-type registration beats an
\* ancestor's, and an unregistered subclass gets its nearest registered
\* ancestor's converter.
C1_LookupWalksMRO ==
    Called =>
        \A i \in 1..Len(last.calls) :
            LET c == last.calls[i]
                mro == MRO[c.cls]
                keys == {k \in 1..Len(mro) : mro[k] \in DOMAIN CallTypeMap}
            IN  IF keys = {} THEN c.converter = None
                ELSE \E k \in keys :
                        /\ \A j \in keys : k <= j
                        /\ c.converter = CallTypeMap[mro[k]]

\* C1 witness: one call in which an unregistered subclass got the converter of
\* its nearest registered ancestor and a registered class, one of whose
\* ancestors is registered too, got its own.
C1_Witness ==
    /\ Called
    /\ \E i \in 1..Len(last.calls) :
        /\ last.calls[i].cls \notin DOMAIN CallTypeMap
        /\ last.calls[i].converter # None
    /\ \E i \in 1..Len(last.calls) :
        LET c == last.calls[i]
        IN  /\ c.cls \in DOMAIN CallTypeMap
            /\ c.converter = CallTypeMap[c.cls]
            /\ \E k \in 2..Len(MRO[c.cls]) :
                /\ MRO[c.cls][k] \in DOMAIN CallTypeMap
                /\ CallTypeMap[MRO[c.cls][k]] # c.converter

\* the positions in a field's normalized validate list of the validators
\* with no registered converter
UnregisteredValidators(tm, field) ==
    IF ~truthy(field.validate) THEN {}
    ELSE LET vs == _normalize_validate(field.validate)[2]
         IN  {k \in 1..Len(vs) : ~Registered(tm, vs[k].cls)}

\* the field with the validator at position k taken off its validate list
WithoutValidator(field, k) ==
    LET vs == _normalize_validate(field.validate)[2]
    IN  [field EXCEPT !.validate =
            PyList([i \in 1..(Len(vs) - 1) |-> IF i < k THEN vs[i] ELSE vs[i + 1]])]

\* C2: a field converted by a Field converter, one of whose validators has no
\* registered converter, converts as the same field without that validator
\* does: the same mapping, and an exception only if that field raises it too.
C2_UnregisteredValidatorSkipped ==
    (Called /\ last.obj.cls \in FieldClasses) =>
        \A k \in UnregisteredValidators(CallTypeMap, last.obj) :
            LET r == convert(CallTypeMap, WithoutValidator(last.obj, k),
                             last.openapi_version)
            IN  /\ last.exc = r.exc
                /\ last.val = r.val

\* C2 witness: a field was converted whose validate list holds an
\* unregistered validator before a Length validator, and the result holds the
\* attributes of the Length validator; and the same with the two the other
\* way round is a field of the model too.
C2_Witness ==
    /\ Called
    /\ last.obj.cls = "String"
    /\ last.obj.validate = PyList(<<RegexpV, LengthV>>)
    /\ PyList(<<LengthV, RegexpV>>) \in ValidateOptions
    /\ UnregisteredValidators(CallTypeMap, last.obj) = {1}
    /\ ReturnedDict
    /\ "minLength" \in DOMAIN last.val[2]
    /\ "maxLength" \in DOMAIN last.val[2]

\* C3: when a convert call reaches a schema or a field that has no registered
\* converter, at the root or below it, the call raises UnregisteredType and
\* returns no mapping; only for a validator of a field is it suppressed.
C3_UnregisteredSchemaOrFieldRaises ==
    Called =>
        ((\E i \in 1..Len(last.calls) :
            /\ last.calls[i].cls \in SchemaClasses \cup FieldClasses
            /\ last.calls[i].converter = None)
         => (last.exc = "UnregisteredType" /\ last.val = UNSET))

\* C3 witness: the unregistered object was met below the root, as a list
\* element inside a property of a schema converted as the items of a many
\* schema, and the call raised.
C3_Witness ==
    /\ Called
    /\ last.exc = "UnregisteredType"
    /\ \E i \in 4..Len(last.calls) :
        /\ last.calls[i].pos = "inner"
        /\ last.calls[i].converter = None
    /\ last.calls[1].converter # None
    /\ last.calls[2].pos = "items"

\* C4: in a call made with a catalog registry, the memo handed to every
\* validator conversion holds the key "type", so the setters of a Length
\* validator read context.memo["type"] without a KeyError, for Constant and
\* Enum fields too.
C4_ValidatorMemoHasType ==
    (Called /\ CatalogCall /\ last.obj.cls \in FieldClasses) =>
        /\ \A i \in 1..Len(last.calls) :
              last.calls[i].pos = "validator" => "type" \in DOMAIN last.calls[i].memo
        /\ last.exc # "KeyError"

LengthKeys == {"minItems", "maxItems", "minLength", "maxLength"}

\* C5: a Length validator with min and max, under version 2 and version 3 and
\* whether or not the field allows null, adds minItems and maxItems (only) to
\* a list field, minLength and maxLength (only) to a string field, and none
\* of the four keys to an integer field, whenever the field converts.
C5_LengthFollowsFieldType ==
    (/\ Called
     /\ CatalogCall
     /\ last.obj.cls \in {"List", "String", "Integer"}
     /\ last.obj.validate = PyList(<<LengthV>>)
     /\ ReturnedDict) =>
        DOMAIN last.val[2] \cap LengthKeys =
              CASE last.obj.cls = "List" -> {"minItems", "maxItems"}
                [] last.obj.cls = "String" -> {"minLength", "maxLength"}
                [] last.obj.cls = "Integer" -> {}

\* the field classes a catalog registry converts with a type-setting
\* converter, and the type name that converter gives
TypeSettingClasses ==
    {"String", "Email", "UUID", "Integer", "Number", "Float", "Boolean", "Date",
     "DateTime", "List", "Dict", "Method", "Function"}

TypeName(field) ==
    CASE field.cls \in {"String", "Email", "UUID", "Date", "DateTime"} -> PyStr("string")
      [] field.cls = "Integer" -> PyStr("integer")
      [] field.cls \in {"Number", "Float"} -> PyStr("number")
      [] field.cls = "Boolean" -> PyStr("boolean")
      [] field.cls = "List" -> PyStr("array")
      [] field.cls = "Dict" -> PyStr("object")
      [] field.cls \in {"Method", "Function"} -> field.metadata["swagger_type"]

\* C6: the result of a type-setting field converter has, for a field that
\* allows null, under version 2 the single type name and nullable true, and
\* under version 3 the list of the type name and "null" and no nullable key;
\* for a field that does not allow null it has the single type name and no
\* nullable key under both versions.
C6_NullableRendering ==
    (/\ Called
     /\ CatalogCall
     /\ last.obj.cls \in TypeSettingClasses
     /\ ReturnedDict) =>
        LET d == last.val[2]
            name == TypeName(last.obj)
        IN  /\ "type" \in DOMAIN d
            /\ IF ~last.obj.allow_none
               THEN d["type"] = name /\ "nullable" \notin DOMAIN d
               ELSE IF last.openapi_version = 2
               THEN /\ d["type"] = name
                    /\ "nullable" \in DOMAIN d
                    /\ d["nullable"] = PyBool(TRUE)
               ELSE /\ d["type"] = PyList(<<name, PyStr("null")>>)
                    /\ "nullable" \notin DOMAIN d

\* C6 witness: a dict field that allows null was converted under version 3
\* to the type list of "object" and "null".
C6_Witness ==
    /\ Called
    /\ CatalogCall
    /\ last.obj.cls = "Dict"
    /\ last.obj.allow_none
    /\ last.openapi_version = 3
    /\ ReturnedDict
    /\ last.val[2]["type"] = PyList(<<PyStr("object"), PyStr("null")>>)

ManyCall == Called /\ last.obj.cls \in SchemaClasses /\ last.obj.many

\* the result of converting the schema of the call with many cleared, under
\* the context of the call
SingularResult ==
    _convert([last.obj EXCEPT !.many = FALSE],
             _Context(CallTypeMap, EmptyMap, last.obj, last.openapi_version),
             "items").val

\* C7, as the claim states it: a many schema converts to exactly the mapping
\* of "type": "array" and "items": R, R the result for the schema with many
\* cleared; the mapping has no other key.
C7_ManyIsTypeAndItemsOnly ==
    (ManyCall /\ ReturnedDict) =>
        last.val = PyDict(SetItem(SetItem(EmptyMap, "type", PyStr("array")),
                                  "items", SingularResult))

\* C7, amended: a many schema converts to exactly the mapping of "type":
\* "array", "items": R and "additionalProperties": false for the unknown
\* policies raise and exclude, true for include; R is the result for the
\* schema with many cleared. It has no title, description, properties or
\* required key.
C7_ManyIsArrayOfSingular ==
    (ManyCall /\ ReturnedDict) =>
        /\ last.obj.unknown \in {"raise", "exclude", "include"}
        /\ last.val =
              PyDict(SetItem(SetItem(SetItem(EmptyMap, "type", PyStr("array")),
                                     "items", SingularResult),
                             "additionalProperties",
                             PyBool(last.obj.unknown = "include")))

\* C7 witness: a many schema that has a docstring, a declared field and the
\* unknown policy exclude was converted, and its items hold the docstring.
C7_Witness ==
    /\ ManyCall
    /\ ReturnedDict
    /\ truthy(last.obj.doc)
    /\ last.obj.fields # <<>>
    /\ "description" \in DOMAIN last.val[2]["items"][2]
    /\ "properties" \in DOMAIN last.val[2]["items"][2]

\* C8: after a convert call, returned or raised, the object converted, and
\* with it every field, validator and schema it holds, has the attribute
\* values it had before the call; a many schema still has many set.
C8_SourceNotMutated ==
    Called => last.obj_after = last.obj

\* C8 witness: a many schema was converted and its items, made from the
\* schema with many cleared, are in the result.
C8_Witness ==
    /\ ManyCall
    /\ ReturnedDict
    /\ last.val[2]["items"][2]["type"] = PyStr("object")
    /\ last.obj_after.many

\* the schema of the call is neither many nor fully partial
RequiredCall ==
    /\ Called
    /\ last.obj.cls \in SchemaClasses
    /\ ~last.obj.many
    /\ last.obj.partial # PyBool(TRUE)

\* the wire-names named by the partial-load exclusion collection
Excluded(schema) ==
    IF is_collection(schema.partial) THEN schema.partial[2] ELSE {}

\* the positions in the declaration of the required fields not excluded
RequiredPositions(schema) ==
    {i \in 1..Len(schema.fields) :
        /\ schema.fields[i].field.required
        /\ get_data_key(schema.fields[i].name, schema.fields[i].field)
              \notin Excluded(schema)}

RequiredNames(schema) ==
    {get_data_key(schema.fields[i].name, schema.fields[i].field) :
        i \in RequiredPositions(schema)}

\* the position in the declaration of the field with wire-name prop
DeclaredAt(schema, prop) ==
    CHOOSE i \in 1..Len(schema.fields) :
        get_data_key(schema.fields[i].name, schema.fields[i].field) = prop

\* the "required" list holds each name of RequiredNames once and no other
RequiredListIsExact ==
    LET req == last.val[2]["required"][2]
    IN  /\ last.val[2]["required"][1] = "list"
        /\ {req[i] : i \in 1..Len(req)} = {PyStr(n) : n \in RequiredNames(last.obj)}
        /\ Len(req) = Cardinality(RequiredNames(last.obj))

Ascending(req) ==
    \A i, j \in 1..Len(req) : i < j => Rank(req[i][2]) < Rank(req[j][2])

\* C9, as the claim states it: the "required" list of a schema, ordered or
\* not, holds in ascending order the wire-names of exactly the required
\* fields not excluded.
C9_RequiredAlwaysSorted ==
    (RequiredCall /\ ReturnedDict /\ "required" \in DOMAIN last.val[2]) =>
        /\ RequiredListIsExact
        /\ Ascending(last.val[2]["required"][2])

\* C9, amended: the "required" list holds the wire-names of exactly the
\* required fields not excluded, each once; in ascending order for a schema
\* that is not ordered, in the order of declaration for an ordered schema.
C9_RequiredSortedUnlessOrdered ==
    (RequiredCall /\ ReturnedDict /\ "required" \in DOMAIN last.val[2]) =>
        LET req == last.val[2]["required"][2]
        IN  /\ RequiredListIsExact
            /\ ~last.obj.ordered => Ascending(req)
            /\ last.obj.ordered =>
                  \A i, j \in 1..Len(req) :
                      i < j => DeclaredAt(last.obj, req[i][2]) < DeclaredAt(last.obj, req[j][2])

\* C9 witness: an ordered schema that declares the required field b before
\* the required field a was converted to the list of b and a, in that order.
C9_Witness ==
    /\ RequiredCall
    /\ ReturnedDict
    /\ "required" \in DOMAIN last.val[2]
    /\ last.obj.ordered
    /\ Len(last.obj.fields) = 2
    /\ last.obj.fields[1].name = "b"
    /\ last.obj.fields[2].name = "a"
    /\ last.val[2]["required"][2] = <<PyStr("b"), PyStr("a")>>

\* C10: a schema result has the key "required" exactly when the schema is
\* not many, partial is not True and some required field is not named by the
\* exclusion collection; the key never holds an empty list.
C10_RequiredOmittedWhenEmpty ==
    (Called /\ last.obj.cls \in SchemaClasses /\ ReturnedDict) =>
        /\ "required" \in DOMAIN last.val[2]
              <=> (/\ ~last.obj.many
                   /\ last.obj.partial # PyBool(TRUE)
                   /\ RequiredPositions(last.obj) # {})
        /\ "required" \in DOMAIN last.val[2] => last.val[2]["required"] # PyList(<<>>)

\* C10 witness: the schema of a required field a and a field b not required,
\* with the exclusion collection {a}, was converted and the result has no
\* "required" key.
C10_Witness ==
    /\ RequiredCall
    /\ ReturnedDict
    /\ Len(last.obj.fields) = 2
    /\ last.obj.fields[1].name = "a" /\ last.obj.fields[1].field.required
    /\ last.obj.fields[2].name = "b" /\ ~last.obj.fields[2].field.required
    /\ last.obj.partial = Collection({"a"})
    /\ "properties" \in DOMAIN last.val[2]
    /\ "required" \notin DOMAIN last.val[2]

\* the policies of unknown fields marshmallow defines: RAISE, EXCLUDE, INCLUDE
UnknownPolicies == {"raise", "exclude", "include"}

\* the schema a call converts first: the root, or the schema of a root
\* Nested field that a Nested converter hands on
SchemaOfCall ==
    IF last.obj.cls \in SchemaClasses THEN last.obj ELSE last.obj.schema

\* the call converted a schema with a Schema converter, at the root or as
\* the schema of a Nested field
SchemaConverted ==
    /\ Called
    /\ \/ last.obj.cls \in SchemaClasses
       \/ last.obj.cls = "Nested" /\ last.calls[1].converter[1] = "NestedConverter"
    /\ Registered(CallTypeMap, SchemaOfCall.cls)

\* C11: a schema whose unknown policy is RAISE or EXCLUDE converts with
\* additionalProperties false, one whose policy is INCLUDE with
\* additionalProperties true; with any other policy the convert call raises
\* ValueError and returns no mapping.
C11_AdditionalPropertiesFollowsUnknown ==
    SchemaConverted =>
        IF SchemaOfCall.unknown \in UnknownPolicies
        THEN ReturnedDict =>
                /\ "additionalProperties" \in DOMAIN last.val[2]
                /\ last.val[2]["additionalProperties"]
                      = PyBool(SchemaOfCall.unknown = "include")
        ELSE last.exc = "ValueError" /\ last.val = UNSET

\* C11 witness: a many schema with a policy that is none of the three was
\* converted and the call raised ValueError.
C11_Witness ==
    /\ SchemaConverted
    /\ last.obj.cls \in SchemaClasses
    /\ last.obj.many
    /\ last.obj.unknown \notin UnknownPolicies
    /\ last.exc = "ValueError"

\* the call converted a field at the root with a converter of the
\* FieldConverter family, and returned a mapping
FieldConverted ==
    /\ Called
    /\ last.obj.cls \in FieldClasses
    /\ last.calls[1].converter # None
    /\ last.calls[1].converter[1] \in FieldConverterClasses
    /\ ReturnedDict

\* C12: the mapping of a field whose dump_only flag is set, converted by any
\* converter of the FieldConverter family, the Nested converter among them,
\* has "readOnly" true; the mapping of a field whose flag is not set has no
\* "readOnly" key.
C12_DumpOnlyIsReadOnly ==
    FieldConverted =>
        IF last.obj.dump_only
        THEN /\ "readOnly" \in DOMAIN last.val[2]
             /\ last.val[2]["readOnly"] = PyBool(TRUE)
        ELSE "readOnly" \notin DOMAIN last.val[2]

\* the call converted a field at the root with FieldConverter.convert, the
\* field declares validators, and the call returned a mapping
ValidatorsConverted ==
    /\ FieldConverted
    /\ last.calls[1].converter[1] # "NestedConverter"
    /\ truthy(last.obj.validate)

\* the field's validators, normalized to a list
CallValidators == _normalize_validate(last.obj.validate)[2]

\* the mapping of the field of the call without its validators
OwnMapping ==
    convert(CallTypeMap, [last.obj EXCEPT !.validate = None], last.openapi_version).val[2]

\* what the validator at position i of the list emits: nothing when it has
\* no registered converter
Emitted(i) ==
    LET r == _convert(CallValidators[i],
                      _Context(CallTypeMap, OwnMapping, last.obj, last.openapi_version),
                      "validator")
    IN  IF r.exc = "none" THEN r.val[2] ELSE EmptyMap

Emitters(k) == {i \in 1..Len(CallValidators) : k \in DOMAIN Emitted(i)}

Last(S) == CHOOSE i \in S : \A j \in S : j <= i

\* C13: the validators of a field, a bare callable taken as a list of one,
\* are converted in list order and merged into the field's mapping: a key
\* emitted by validators holds the value of the last validator in the list
\* that emitted it, also when the field's own setters produced the key, and
\* a key no validator emitted keeps the field's own value.
C13_LaterValidatorWins ==
    ValidatorsConverted =>
        /\ DOMAIN last.val[2] =
              DOMAIN OwnMapping
              \cup UNION {DOMAIN Emitted(i) : i \in 1..Len(CallValidators)}
        /\ \A k \in DOMAIN last.val[2] :
              last.val[2][k] = IF Emitters(k) = {} THEN OwnMapping[k]
                               ELSE Emitted(Last(Emitters(k)))[k]

\* C13 witness: a field with two Range validators that both emit "minimum"
\* was converted; the value is the second validator's, "maximum" is the
\* first's and "type" the field's own.
C13_Witness ==
    /\ ValidatorsConverted
    /\ last.obj.validate = PyList(<<RangeV1, RangeV0>>)
    /\ last.val[2]["minimum"] = RangeV0.min
    /\ last.val[2]["maximum"] = RangeV1.max
    /\ RangeV0.min # RangeV1.min
    /\ "type" \in DOMAIN last.val[2]

\* the call converted a delimited-list field at the root with the converter
\* of its kind, and returned a mapping
DelimitedListConverted ==
    /\ FieldConverted
    /\ \/ last.obj.cls = "CommaSeparatedList"
          /\ last.calls[1].converter[1] = "CsvArrayConverter"
       \/ last.obj.cls = "QueryParamList"
          /\ last.calls[1].converter[1] = "MultiArrayConverter"

IsCsv == last.calls[1].converter[1] = "CsvArrayConverter"

EncodingKeys == {"collectionFormat", "style", "explode"}

\* C14: each of the two delimited-list converters emits type and items and,
\* under version 2, "collectionFormat" (csv,
\* respectively multi) and neither "style" nor "explode"; under version 3,
\* both "style" and "explode" and no "collectionFormat".
C14_StyleAndExplodePair ==
    DelimitedListConverted =>
        LET d == last.val[2]
        IN  /\ {"type", "items"} \subseteq DOMAIN d
            /\ IF last.openapi_version = 2
               THEN /\ DOMAIN d \cap EncodingKeys = {"collectionFormat"}
                    /\ d["collectionFormat"] = PyStr(IF IsCsv THEN "csv" ELSE "multi")
               ELSE DOMAIN d \cap EncodingKeys = {"style", "explode"}

\* the type a converter is bound to
BoundType(converter) == MARSHMALLOW_TYPE[converter[1]]

\* register_type called on each converter of a list, in order
RECURSIVE RegisterEach(_, _)
RegisterEach(tm, converters) ==
    IF converters = <<>> THEN tm
    ELSE RegisterEach(register_type(tm, Head(converters)), Tail(converters))

\* C15: after any sequence of register_type and register_types calls the
\* type map of a registry holds, for each type a converter was registered
\* for, the converter registered for it last, and no other key; it is the
\* map register_type makes called on each converter in turn; and
\* registering the converter a type already has leaves the map as it is.
C15_LastRegistrationWins ==
    \A r \in Registries :
        LET regs == log[r]
            at(t) == {i \in 1..Len(regs) : BoundType(regs[i]) = t}
        IN  /\ DOMAIN type_map[r] = {BoundType(regs[i]) : i \in 1..Len(regs)}
            /\ \A t \in DOMAIN type_map[r] : type_map[r][t] = regs[Last(at(t))]
            /\ type_map[r] = RegisterEach(ConverterRegistry, regs)
            /\ \A n \in 1..Len(regs) :
                  LET before == RegisterEach(ConverterRegistry, SubSeq(regs, 1, n - 1))
                  IN  (/\ BoundType(regs[n]) \in DOMAIN before
                       /\ before[BoundType(regs[n])] = regs[n])
                      => register_type(before, regs[n]) = before

\* C15 witness: a registry the caller made was given two converters bound
\* to one type, by register_types, and then the second of them again; its
\* map holds the second.
C15_Witness ==
    LET regs == log["custom"]
    IN  /\ Len(regs) = 3
        /\ BoundType(regs[1]) = BoundType(regs[2])
        /\ regs[1] # regs[2]
        /\ regs[3] = regs[2]
        /\ type_map["custom"][BoundType(regs[1])] = regs[2]
        /\ nreg = 2

\* the types every catalog registry has a converter for
CommonTypes ==
    {"Boolean", "Date", "DateTime", "Function", "Integer", "List", "Method",
     "Number", "String", "UUID", "Constant", "Length", "Range", "OneOf", "Schema"}
    \cup (IF EnumField # "None" THEN {EnumField} ELSE {})

DelimitedListTypes == {"CommaSeparatedList", "QueryParamList"}
NestingTypes == {"Dict", "Nested"}

\* nothing was registered with the registry since the module was imported
AsImported(r) == log[r] = imported_converters[r]

\* C16: after module initialisation each of the four catalog registries has
\* the common types as keys; the query-string and the header registry have
\* besides them exactly the two delimited-list types, and neither Dict nor
\* Nested; the request-body and the response registry have besides them
\* exactly Dict and Nested, and neither delimited-list type.  Each key's
\* converter is bound to the key.
C16_CatalogKeySets ==
    \A r \in CatalogRegistries :
        AsImported(r) =>
            /\ DOMAIN type_map[r] =
                  CommonTypes
                  \cup (IF r \in {"query_string", "headers"}
                        THEN DelimitedListTypes ELSE NestingTypes)
            /\ DOMAIN type_map[r]
                  \cap (IF r \in {"query_string", "headers"}
                        THEN NestingTypes ELSE DelimitedListTypes) = {}
            /\ \A t \in DOMAIN type_map[r] : MARSHMALLOW_TYPE[type_map[r][t][1]] = t

\* C16 witness: with the registries as imported, a Nested field was given to
\* the query-string registry, which has no converter for it, and the call
\* raised UnregisteredType.
C16_Witness ==
    /\ Called
    /\ \A r \in CatalogRegistries : AsImported(r)
    /\ last.reg = "query_string"
    /\ last.obj.cls = "Nested"
    /\ last.exc = "UnregisteredType"
    /\ DelimitedListTypes \subseteq DOMAIN type_map[last.reg]

\* a Method or a Function field whose metadata has no "swagger_type"
Untyped(field) ==
    /\ field.cls \in {"Method", "Function"}
    /\ "swagger_type" \notin DOMAIN field.metadata

\* the declared fields of a schema in the order get_properties converts
\* them, up to the first that is a Method or Function field without
\* "swagger_type"
FirstUntyped(schema) ==
    LET fs == get_schema_fields(schema)
        S == {k \in 1..Len(fs) : Untyped(schema.fields[fs[k][2]].field)}
    IN  IF S = {} THEN 0 ELSE CHOOSE k \in S : \A j \in S : k <= j

\* the converter is a Method or a Function converter
TypeDeclaring(converter) == converter[1] \in {"MethodConverter", "FunctionConverter"}

\* C17: converting a Method or Function field whose metadata has no
\* "swagger_type" raises ValueError out of the convert call with no mapping
\* returned, at the root and when the field is a property of the schema
\* converted (the properties converted before it having converted); with
\* the entry the field's "type" is the declared value, and the list of the
\* value and "null" only under version 3 with null allowed.
C17_SwaggerTypeRequired ==
    /\ (/\ Called
        /\ last.obj.cls \in {"Method", "Function"}
        /\ TypeDeclaring(last.calls[1].converter)) =>
          IF Untyped(last.obj)
          THEN last.exc = "ValueError" /\ last.val = UNSET
          ELSE /\ ReturnedDict
               /\ last.val[2]["type"] =
                     IF last.openapi_version = 3 /\ last.obj.allow_none
                     THEN PyList(<<last.obj.metadata["swagger_type"], PyStr("null")>>)
                     ELSE last.obj.metadata["swagger_type"]
    /\ (/\ Called
        /\ last.obj.cls \in SchemaClasses
        /\ ~last.obj.many
        /\ FirstUntyped(last.obj) # 0) =>
          /\ last.exc # "none"
          /\ last.val = UNSET
          /\ (/\ Len(last.calls) = 1 + FirstUntyped(last.obj)
              /\ TypeDeclaring(last.calls[Len(last.calls)].converter)
              /\ last.obj.unknown \in UnknownPolicies)
             => last.exc = "ValueError"

\* C17 witness: a schema whose second property is a Method field without
\* "swagger_type" was converted; the first property converted, the call
\* raised ValueError.
C17_Witness ==
    /\ Called
    /\ last.obj.cls \in SchemaClasses
    /\ ~last.obj.many
    /\ FirstUntyped(last.obj) = 2
    /\ Len(last.calls) = 3
    /\ last.calls[3].cls = "Method"
    /\ TypeDeclaring(last.calls[3].converter)
    /\ last.exc = "ValueError"
    /\ last.val = UNSET

Repeated == pc = "repeated"

\* C18: two successive convert calls with the same registry, object and
\* version, no registration between them, end alike: the same mapping or
\* the same exception; and the second ends as a call made alone on the
\* object as it was before the first.
C18_RepeatedCallEndsAlike ==
    Repeated =>
        /\ last.val = prev.val
        /\ last.exc = prev.exc
        /\ LET alone == convert(type_map[prev.reg], prev.obj, prev.openapi_version)
           IN  last.val = alone.val /\ last.exc = alone.exc

\* C18 witness: a many schema was converted twice, and the second call
\* returned an array mapping whose items have properties.
C18_Witness ==
    /\ Repeated
    /\ prev.obj.cls \in SchemaClasses
    /\ prev.obj.many
    /\ prev.obj.fields # <<>>
    /\ last.exc = "none"
    /\ last.val[2]["type"] = PyStr("array")
    /\ "properties" \in DOMAIN last.val[2]["items"][2]

\* C19: a convert call, returning or raising, at any depth of recursion and
\* with a lookup of an unregistered validator suppressed, leaves the type
\* map of every registry as it was, keys and converter instances; only
\* register_type and register_types change a type map.
C19_ConvertLeavesTypeMaps ==
    [][(pc = "idle" /\ pc' = "called") => type_map' = type_map]_vars

\* C19 witness: after a registration, a field with a validator that has no
\* registered converter was converted, the lookup failure was suppressed,
\* and the type map of the registry is the one its registrations made.
C19_Witness ==
    /\ Called
    /\ ~AsImported("query_string")
    /\ last.reg = "query_string"
    /\ last.exc = "none"
    /\ \E i \in 1..Len(last.calls) :
          last.calls[i].pos = "validator" /\ last.calls[i].converter = None
    /\ type_map[last.reg] = RegisterEach(ConverterRegistry, log[last.reg])


----------------------------------------------------------------------------
(* C20 *)

Ended(t) == threads[t].status # "running"

\* C20: convert calls on one registry that run interleaved, no registration
\* running, do not interfere: the dicts a call creates (its memo and the
\* mappings it assembles) are those of no other call, and a call that has
\* ended has returned the mapping, or raised the exception, of the same
\* call run alone.
C20_ConcurrentCallsEndAsAlone ==
    /\ \A t \in DOMAIN threads : \A u \in DOMAIN threads :
          t # u => threads[t].dicts \cap threads[u].dicts = {}
    /\ \A t \in DOMAIN threads :
          Ended(t) =>
             LET alone == convert(type_map[ConcRegistry], threads[t].obj,
                                  threads[t].openapi_version)
             IN  threads[t].val = alone.val /\ threads[t].exc = alone.exc

\* C20 witness: two calls are in the middle of their setter loops at once.
\* Each is converting a Length validator with its own field's mapping as the
\* memo, the one field's type being "string" and the other's "array", and
\* each has invoked some of the validator converter's setters and not all.
C20_Witness ==
    /\ Len(threads) = 2
    /\ \A t \in 1..2 :
          /\ Running(t)
          /\ Len(threads[t].stack) = 2
          /\ Top(t).klass = "LengthConverter"
          /\ Top(t).phase = "setters"
          /\ Len(Top(t).methods) \in 1..3
          /\ Top(t).memo = threads[t].stack[1].addr
    /\ Deref(heap, Top(1).memo)["type"] = PyStr("string")
    /\ Deref(heap, Top(2).memo)["type"] = PyStr("array")

----------------------------------------------------------------------------
(* C21 *)

\* the call made last was answered by MarshmallowConverter.convert alone: the
\* converter is no Nested converter, and a field converter had neither
\* readOnly nor validators to add
PlainConvertCall ==
    /\ Called
    /\ last.exc = "none"
    /\ last.calls[1].converter # None
    /\ last.calls[1].converter[1] # "NestedConverter"
    /\ last.calls[1].converter[1] \in FieldConverterClasses =>
          ~last.obj.dump_only /\ ~truthy(last.obj.validate)

\* the class of the converter instance that answered the call made last
RootKlass == last.calls[1].converter[1]

\* the context the call made last gave its converter
RootContext == _Context(CallTypeMap, EmptyMap, last.obj, last.openapi_version)

\* the value the setter named method returns for the call made last
SetterValue(method) == call_method(RootKlass, method, last.obj, RootContext).val

\* the tagged setters of the instance that return something other than UNSET
SettersThatSet == {method \in marked_methods(RootKlass) : SetterValue(method) # UNSET}

\* C21: MarshmallowConverter.convert invokes each tagged setter of the
\* converter instance, inherited ones included, once with (obj, context),
\* and the mapping it returns has exactly the tags of the setters that did
\* not return UNSET as keys, each with the value its setter returned; None
\* and False are values like any other.
C21_MappingOfSetterValues ==
    PlainConvertCall =>
        /\ Len(getmembers(RootKlass)) = Cardinality(marked_methods(RootKlass))
        /\ {getmembers(RootKlass)[i] : i \in 1..Len(getmembers(RootKlass))}
              = marked_methods(RootKlass)
        /\ DOMAIN last.val[2] = {sets_swagger_attr[method] : method \in SettersThatSet}
        /\ \A method \in SettersThatSet :
              last.val[2][sets_swagger_attr[method]] = SetterValue(method)

\* C21 witness: a comma-separated list converted for version 3 returned
\* "explode" with the value False its setter returned and has no key for
\* the setters of collectionFormat, default, description and nullable,
\* which returned UNSET.
C21_Witness ==
    /\ PlainConvertCall
    /\ RootKlass = "CsvArrayConverter"
    /\ "explode" \in DOMAIN last.val[2]
    /\ last.val[2]["explode"] = PyBool(FALSE)
    /\ SetterValue("get_collection_format") = UNSET
    /\ DOMAIN last.val[2] = {"explode", "items", "style", "type"}


----------------------------------------------------------------------------
(* C22 *)

\* the call made last converted a Nested field with the Nested converter
NestedConverted ==
    /\ Called
    /\ last.obj.cls = "Nested"
    /\ last.calls[1].converter # None
    /\ last.calls[1].converter[1] = "NestedConverter"

\* C22: converting a Nested field ends as converting the schema it refers
\* to does under the same context, with the same mapping or the same
\* exception: the field's own default, description, nullability, dump_only
\* and validators add and change no key.
C22_NestedIsItsSchema ==
    NestedConverted =>
        LET sub == _convert(last.obj.schema, RootContext, "nested")
        IN  /\ last.val = sub.val
            /\ last.exc = sub.exc

\* C22 witness: a Nested field that is dump_only, allows None, carries a
\* description and a Length validator was converted for version 2, and the
\* mapping returned is the object mapping of its schema.
C22_Witness ==
    /\ NestedConverted
    /\ last.exc = "none"
    /\ last.openapi_version = 2
    /\ last.obj.dump_only
    /\ last.obj.allow_none
    /\ truthy(last.obj.validate)
    /\ "description" \in DOMAIN last.obj.metadata
    /\ last.val[2]["type"] = PyStr("object")
    /\ "properties" \in DOMAIN last.val[2]


----------------------------------------------------------------------------
(* C23 *)

Wrapped == dcall.op = "wrapper"

\* the i-th alias of the decorator of the call made last is the only one in
\* play: no other alias of the decorator is a keyword of the call or the
\* replacement name of the i-th
OnlyAliasInPlay(i) ==
    \A j \in 1..Len(dcall.aliases) :
        j # i => /\ dcall.aliases[j][1] \notin DOMAIN dcall.kwargs
                 /\ PyStr(dcall.aliases[j][1])
                       # _validated_deprecation_spec(dcall.aliases[i][2]).new_name

\* what the claim says of alias old with the validated spec v
AliasRemapped(old, v) ==
    IF v.new_name[2] \in DOMAIN dcall.kwargs
    THEN dcall.exc = "TypeError" /\ ~dcall.called
    ELSE /\ dcall.called
         /\ old \notin DOMAIN dcall.received[2]
         /\ v.new_name[2] \in DOMAIN dcall.received[2]
         /\ dcall.received[2][v.new_name[2]] =
               IF v.coerce_func = None THEN dcall.kwargs[old]
               ELSE coerce_func(v.coerce_func, dcall.kwargs[old])

\* C23: a call of a function decorated with deprecated_parameters(old =
\* new_spec) that passes old and not the replacement name calls the wrapped
\* function with the value, coerced when the spec has a coerce function,
\* under the replacement name and without old; a call that passes both
\* raises TypeError and does not call the wrapped function; keywords that
\* are no aliases are passed on as they are, and the caller's kwargs are
\* left as they were.
C23_DeprecatedParameterRemapped ==
    Wrapped =>
        /\ dcall.kwargs_after = dcall.kwargs
        /\ dcall.called =>
              \A k \in DOMAIN dcall.kwargs :
                  k \notin {dcall.aliases[i][1] : i \in 1..Len(dcall.aliases)} =>
                      /\ k \in DOMAIN dcall.received[2]
                      /\ dcall.received[2][k] = dcall.kwargs[k]
        /\ \A i \in 1..Len(dcall.aliases) :
              (/\ dcall.aliases[i][1] \in DOMAIN dcall.kwargs
               /\ _validated_deprecation_spec(dcall.aliases[i][2]).new_name # None
               /\ OnlyAliasInPlay(i))
              => AliasRemapped(dcall.aliases[i][1],
                               _validated_deprecation_spec(dcall.aliases[i][2]))

\* C23 witness: the decorator has the aliases b and a, a with the spec
\* ("c", "3.0", negate); the call passed a=1 and x=4, and the wrapped
\* function was called with c=-1 and x=4.
C23_Witness ==
    /\ Wrapped
    /\ Len(dcall.aliases) = 2
    /\ dcall.aliases[2] = <<"a", Tuple(<<PyStr("c"), PyStr("3.0"), <<"callable", "negate">>>>)>>
    /\ DOMAIN dcall.kwargs = {"a", "x"}
    /\ dcall.called
    /\ DOMAIN dcall.received[2] = {"c", "x"}
    /\ dcall.received[2]["c"] = PyInt(0 - 1)
    /\ dcall.received[2]["x"] = PyInt(4)
    /\ Len(dcall.warnings) = 1


----------------------------------------------------------------------------
(* C24 *)

\* what validator v emits when it is converted with memo: nothing when it
\* has no registered converter
EmittedWith(v, memo) ==
    LET r == _convert(v, _Context(CallTypeMap, memo, last.obj, last.openapi_version),
                      "validator")
    IN  IF r.exc = "none" THEN r.val[2] ELSE EmptyMap

\* the field's own mapping with what the validators before the k-th merged
\* into it, in list order
RECURSIVE MemoAt(_)
MemoAt(k) ==
    IF k = 1 THEN OwnMapping
    ELSE update(MemoAt(k - 1), EmittedWith(CallValidators[k - 1], MemoAt(k - 1)))

\* the _convert call made for the k-th validator of the field at the root:
\* the validators are converted last, one call each
ValidatorCall(k) == last.calls[Len(last.calls) - Len(CallValidators) + k]

\* C24: the memo given to the conversion of the k-th validator of a field is
\* the field's mapping as accumulated so far: what the field's own setters
\* set, readOnly when the field is dump_only, and what validators 1..k-1
\* merged, and nothing of a later validator; every conversion that is not
\* that of a validator is given the empty memo of the top-level call.
C24_MemoIsAccumulatedMapping ==
    /\ Called =>
          \A i \in 1..Len(last.calls) :
              last.calls[i].pos # "validator" => last.calls[i].memo = EmptyMap
    /\ ValidatorsConverted =>
          /\ \A k \in 1..Len(CallValidators) :
                /\ ValidatorCall(k).pos = "validator"
                /\ ValidatorCall(k).cls = CallValidators[k].cls
                /\ ValidatorCall(k).memo = MemoAt(k)
          /\ last.val[2] = MemoAt(Len(CallValidators) + 1)

\* C24 witness: a dump_only String field with a Length and a Range validator
\* was converted; the Length validator saw the type and readOnly and no
\* length bound, the Range validator saw the length bounds too and no
\* minimum, and the mapping returned has the minimum.
C24_Witness ==
    /\ ValidatorsConverted
    /\ last.obj.dump_only
    /\ last.obj.validate = PyList(<<LengthV, RangeV1>>)
    /\ DOMAIN ValidatorCall(1).memo = {"type", "readOnly"}
    /\ DOMAIN ValidatorCall(2).memo = {"type", "readOnly", "minLength", "maxLength"}
    /\ "minimum" \in DOMAIN last.val[2]


----------------------------------------------------------------------------
(* C25 *)

\* the wire-names in the "required" list of the mapping returned
ListedRequired ==
    IF "required" \in DOMAIN last.val[2]
    THEN {last.val[2]["required"][2][i][2] :
             i \in 1..Len(last.val[2]["required"][2])}
    ELSE {}

\* the positions of the required fields declared under a name that is not
\* their wire-name
Renamed(schema) ==
    {i \in 1..Len(schema.fields) :
        /\ schema.fields[i].field.required
        /\ get_data_key(schema.fields[i].name, schema.fields[i].field)
              # schema.fields[i].name}

\* C25: get_required matches the partial-load exclusion collection against
\* the wire-name of a field, not the name it is declared under: a required
\* field declared as n with another wire-name w is left out of "required"
\* exactly when w is in the collection, and is listed as w when the
\* collection names n and not w.
C25_PartialMatchesWireName ==
    (RequiredCall /\ ReturnedDict) =>
        \A i \in Renamed(last.obj) :
            LET n == last.obj.fields[i].name
                w == get_data_key(n, last.obj.fields[i].field)
            IN  /\ w \in ListedRequired <=> w \notin Excluded(last.obj)
                /\ n \notin ListedRequired \/ n \in WireNames(last.obj.fields)

\* C25 witness: a schema declares the required field c with wire-name a, its
\* exclusion collection names c, and the field is listed in "required" as a.
C25_Witness ==
    /\ RequiredCall
    /\ ReturnedDict
    /\ \E i \in Renamed(last.obj) :
          /\ last.obj.fields[i].name = "c"
          /\ get_data_key("c", last.obj.fields[i].field) = "a"
    /\ Excluded(last.obj) = {"c"}
    /\ "a" \in ListedRequired


----------------------------------------------------------------------------
(* C26 *)

\* C26: DeprecationConfig is a singleton over any sequence of getInstance()
\* and constructor calls.  The first of them creates the one instance, with
\* warning_type FutureWarning, and stores it; a later getInstance() returns
\* the stored instance and leaves its warning_type as it is; a later
\* constructor call raises and leaves the stored instance and its
\* warning_type as they are; no second instance is ever stored.
C26_DeprecationConfigIsSingleton ==
    [][(dcall = NoOp /\ dcall'.op \in {"getInstance", "DeprecationConfig"}) =>
          IF __instance = None
          THEN /\ dcall'.exc = "none"
               /\ dcall'.val = PyInt(1)
               /\ __instance' = Object(1, "FutureWarning")
               /\ stored' = <<1>>
          ELSE /\ __instance' = __instance
               /\ stored' = stored
               /\ Len(stored') = 1
               /\ dcall'.op = "getInstance" =>
                     dcall'.exc = "none" /\ dcall'.val = PyInt(__instance[2])
               /\ dcall'.op = "DeprecationConfig" => dcall'.exc = "Exception"]_vars

\* C26 witness: getInstance() returned the one instance stored, whose
\* warning_type a caller had set to DeprecationWarning before the call.
C26_Witness ==
    /\ dcall.op = "getInstance"
    /\ dcall.val = PyInt(1)
    /\ __instance = Object(1, "DeprecationWarning")
    /\ stored = <<1>>


----------------------------------------------------------------------------
(* C27 *)

Flattened == fcall.op = "convert_jsonschema_to_list_of_parameters"

\* the names in the "required" list of the input, none when it has no list
RequiredOf(obj) ==
    IF "required" \in DOMAIN obj
    THEN {obj["required"][2][i][2] : i \in 1..Len(obj["required"][2])}
    ELSE {}

\* parameter is the property prop named name as the claim describes it
Descriptor(parameter, name, prop) ==
    /\ DOMAIN parameter[2] = DOMAIN prop[2] \cup {"name", "in", "required"}
    /\ parameter[2]["name"] = PyStr(name)
    /\ parameter[2]["in"] = PyStr(fcall.in_)
    /\ parameter[2]["required"] = PyBool(name \in RequiredOf(fcall.obj))
    /\ \A k \in DOMAIN prop[2] \ {"name", "in", "required"} :
          parameter[2][k] = prop[2][k]

\* C27: for an object-typed mapping the flattener returns one parameter
\* descriptor per entry of "properties", in their order: the property's
\* mapping with "name" the property name, "in" the position given and
\* "required" true exactly when the name is in the mapping's "required"
\* list, false for all when there is no list; the input mapping and the
\* mappings of its properties are left as they were; a mapping whose type
\* is not "object" is rejected by the assertion.
C27_FlattenedParameters ==
    Flattened =>
        /\ fcall.obj_after = fcall.obj
        /\ "type" \in DOMAIN fcall.obj =>
              IF fcall.obj["type"] # PyStr("object")
              THEN fcall.exc = "AssertionError"
              ELSE "properties" \in DOMAIN fcall.obj =>
                      /\ fcall.exc = "none"
                      /\ Len(fcall.val[2]) = Len(fcall.obj["properties"][2])
                      /\ \A i \in 1..Len(fcall.val[2]) :
                            Descriptor(fcall.val[2][i],
                                       fcall.obj["properties"][2][i][1],
                                       fcall.obj["properties"][2][i][2])

\* C27 witness: a mapping with the properties q and p, p alone required and
\* q holding a nested mapping and a "name" of its own, was flattened for the
\* header position into the descriptors of q, not required, and p, required.
C27_Witness ==
    /\ Flattened
    /\ fcall.exc = "none"
    /\ fcall.in_ = "header"
    /\ Len(fcall.val[2]) = 2
    /\ fcall.obj["properties"][2][1][1] = "q"
    /\ "items" \in DOMAIN fcall.obj["properties"][2][1][2][2]
    /\ fcall.val[2][1][2]["name"] = PyStr("q")
    /\ fcall.val[2][1][2]["required"] = PyBool(FALSE)
    /\ fcall.val[2][2][2]["name"] = PyStr("p")
    /\ fcall.val[2][2][2]["required"] = PyBool(TRUE)

====
